---- MODULE Spec2Model ----
(***************************************************************************)
(* Decision & planning rule engine of the UniTR admissions assistant:      *)
(* eligibility snapshot, document checklist, timeline and program search,  *)
(* over a catalog held in SQLite tables.                                   *)
(*                                                                         *)
(* Conventions of the model                                                *)
(*   - a JavaScript object is a record; an optional field that is          *)
(*     undefined is absent from the record's DOMAIN;                       *)
(*   - numbers are integers (scores that carry one decimal, such as an     *)
(*     IELTS band, are written in tenths); NaN is the tagged value NaN;    *)
(*   - a TEXT column holding a payload (requirements.rule_value) is the    *)
(*     tagged value of what the text is: a numeral, a JSON object, the     *)
(*     JSON literal null, or text that is neither a numeral nor JSON;      *)
(*   - Arabic message halves (reason_ar, message_ar, ...) are left out:    *)
(*     they are constant texts no decision reads.                          *)
(***************************************************************************)
EXTENDS Integers, Sequences, FiniteSets, TLC

VARIABLES db, input, output

vars == <<db, input, output>>

-----------------------------------------------------------------------------
(* Bounds of the model *)

\* at most this many rows of the requirements table
MaxRules == 2

\* at most this many rows of the program_document_rules table
MaxDocs == 4

\* at most this many rows of the programs table in a search catalog
MaxPrograms == 2

\* at most this many major_keywords in a search request
MaxKeywords == 2

-----------------------------------------------------------------------------
(* JavaScript values and string functions *)

NULL == "NULL"

NoFields == [f \in {} |-> 0]

Has(obj, f) == f \in DOMAIN obj

Num(n) == [t |-> "num", v |-> n]

NaN == [t |-> "nan"]

\* a >= b on JavaScript numbers: any comparison with NaN is false
JsGe(a, b) == a.t = "num" /\ b.t = "num" /\ a.v >= b.v

\* template-literal rendering of a number
NumToString(a) == IF a.t = "num" THEN ToString(a.v) ELSE "NaN"

LowerChar(c) ==
  CASE c = "A" -> "a" [] c = "B" -> "b" [] c = "C" -> "c" [] c = "D" -> "d"
    [] c = "E" -> "e" [] c = "F" -> "f" [] c = "G" -> "g" [] c = "H" -> "h"
    [] c = "I" -> "i" [] c = "J" -> "j" [] c = "K" -> "k" [] c = "L" -> "l"
    [] c = "M" -> "m" [] c = "N" -> "n" [] c = "O" -> "o" [] c = "P" -> "p"
    [] c = "Q" -> "q" [] c = "R" -> "r" [] c = "S" -> "s" [] c = "T" -> "t"
    [] c = "U" -> "u" [] c = "V" -> "v" [] c = "W" -> "w" [] c = "X" -> "x"
    [] c = "Y" -> "y" [] c = "Z" -> "z" [] OTHER -> c

RECURSIVE toLowerCase(_)
\* String.prototype.toLowerCase on the ASCII texts of the engine
toLowerCase(s) ==
  IF Len(s) = 0 THEN ""
  ELSE LowerChar(SubSeq(s, 1, 1)) \o toLowerCase(SubSeq(s, 2, Len(s)))

\* String.prototype.includes
includes(s, sub) ==
  \E i \in 0..(Len(s) - Len(sub)) : SubSeq(s, i + 1, i + Len(sub)) = sub

\* Array.prototype.indexOf, 0-based, -1 when absent
indexOf(arr, x) ==
  IF \E i \in 1..Len(arr) : arr[i] = x
  THEN (CHOOSE i \in 1..Len(arr) : arr[i] = x /\ \A j \in 1..(i - 1) : arr[j] # x) - 1
  ELSE -1

-----------------------------------------------------------------------------
(* requirements.rule_value: what the stored text is *)

\* a numeral, e.g. "60"
NumText(n) == [t |-> "num", v |-> n]

\* a JSON object, e.g. {"type":"english","ielts":6,"toefl":80}
ObjText(o) == [t |-> "obj", o |-> o]

\* the JSON literal null
NullText == [t |-> "null"]

\* text that is neither a numeral nor JSON, e.g. "abc" or ""
BadText == [t |-> "bad"]

\* parseFloat(text)
parseFloat(text) == IF text.t = "num" THEN Num(text.v) ELSE NaN

\* JSON.parse(text): [throws |-> TRUE] or the parsed value
JSONparse(text) ==
  CASE text.t = "bad" -> [throws |-> TRUE]
    [] text.t = "num" -> [throws |-> FALSE, kind |-> "number", o |-> NoFields]
    [] text.t = "null" -> [throws |-> FALSE, kind |-> "null", o |-> NoFields]
    [] text.t = "obj" -> [throws |-> FALSE, kind |-> "object", o |-> text.o]

-----------------------------------------------------------------------------
(* The catalog tables and ProgramRepository *)

\* rule_type values in the order SQLite's ORDER BY rule_type gives them
RuleTypeOrder ==
  <<"exam_score", "gpa_minimum", "interview_required", "language_proficiency",
    "other", "portfolio_required", "work_experience">>

\* r1 comes before r2 under ORDER BY required_flag DESC, rule_type
\* (rows that tie come in rowid order)
RequirementBefore(r1, r2) ==
  \/ r1.required_flag > r2.required_flag
  \/ /\ r1.required_flag = r2.required_flag
     /\ indexOf(RuleTypeOrder, r1.rule_type) < indexOf(RuleTypeOrder, r2.rule_type)
  \/ /\ r1.required_flag = r2.required_flag
     /\ r1.rule_type = r2.rule_type
     /\ r1.id < r2.id

RECURSIVE OrderRequirements(_)
OrderRequirements(rows) ==
  IF rows = {} THEN <<>>
  ELSE LET first == CHOOSE r \in rows : \A o \in rows \ {r} : RequirementBefore(r, o)
       IN <<first>> \o OrderRequirements(rows \ {first})

\* SELECT university_id FROM programs WHERE id = ?
UniversityOf(programId) ==
  IF \E p \in db.programs : p.id = programId
  THEN (CHOOSE p \in db.programs : p.id = programId).university_id
  ELSE NULL

\* the rows the WHERE clause of getRequirements selects
RequirementRows(programId) ==
  {r \in db.requirements :
     \/ r.program_id = programId
     \/ (r.program_id = NULL /\ UniversityOf(programId) # NULL
           /\ r.university_id = UniversityOf(programId))}

RequirementOutput(row) ==
  [id |-> row.id, rule_type |-> row.rule_type, rule_value |-> row.rule_value,
   required |-> (row.required_flag = 1)]

getRequirements(programId) ==
  LET rows == OrderRequirements(RequirementRows(programId))
  IN [i \in 1..Len(rows) |-> RequirementOutput(rows[i])]

\* characters in ascending code order (SQLite's BINARY collation compares codes)
AsciiOrder == " /0123456789ABCDEFGHIJKLMNOPQRSTUVWXYZ_abcdefghijklmnopqrstuvwxyz"

CharCode(c) == CHOOSE i \in 1..Len(AsciiOrder) : SubSeq(AsciiOrder, i, i) = c

RECURSIVE StringLess(_, _)
\* a < b under the BINARY collation
StringLess(a, b) ==
  IF Len(b) = 0 THEN FALSE
  ELSE IF Len(a) = 0 THEN TRUE
  ELSE IF SubSeq(a, 1, 1) = SubSeq(b, 1, 1)
       THEN StringLess(SubSeq(a, 2, Len(a)), SubSeq(b, 2, Len(b)))
       ELSE CharCode(SubSeq(a, 1, 1)) < CharCode(SubSeq(b, 1, 1))

\* COALESCE(row.col, dflt): a NULL column is a field the row lacks
COALESCE(row, col, dflt) == IF Has(row, col) THEN row[col] ELSE dflt

\* program_document_rules JOIN document_templates ON doc_key WHERE program_id = ?
DocumentRows(programId) ==
  {j \in [pdr : db.program_document_rules, dt : db.document_templates] :
     j.pdr.doc_key = j.dt.doc_key /\ j.pdr.program_id = programId}

\* j1 comes before j2 under ORDER BY pdr.required_flag DESC, dt.label_en
\* (rows that tie come in rowid order)
DocumentBefore(j1, j2) ==
  \/ j1.pdr.required_flag > j2.pdr.required_flag
  \/ /\ j1.pdr.required_flag = j2.pdr.required_flag
     /\ StringLess(j1.dt.label_en, j2.dt.label_en)
  \/ /\ j1.pdr.required_flag = j2.pdr.required_flag
     /\ j1.dt.label_en = j2.dt.label_en
     /\ j1.pdr.id < j2.pdr.id

RECURSIVE OrderDocuments(_)
OrderDocuments(rows) ==
  IF rows = {} THEN <<>>
  ELSE LET first == CHOOSE r \in rows : \A o \in rows \ {r} : DocumentBefore(r, o)
       IN <<first>> \o OrderDocuments(rows \ {first})

\* a mapping that takes the template defaults and ignores the overrides
DocumentOutputTemplateOnly(j) ==
  LET doc == [doc_key |-> j.dt.doc_key,
              label_en |-> j.dt.label_en,
              required |-> (COALESCE(j.pdr, "required_flag", 1) = 1),
              translation_required |-> (j.dt.translation_required_default = 1),
              notarization_required |-> (j.dt.notarization_required_default = 1)]
  IN IF Has(j.dt, "estimated_days_to_obtain")
     THEN doc @@ ("estimated_days" :> j.dt.estimated_days_to_obtain)
     ELSE doc

\* one row of getDocuments mapped to a DocumentOutput; estimated_days is
\* absent when the template's estimated_days_to_obtain is NULL
DocumentOutput(j) ==
  LET required == COALESCE(j.pdr, "required_flag", 1)
      translation_required ==
        COALESCE(j.pdr, "translation_required", j.dt.translation_required_default)
      notarization_required ==
        COALESCE(j.pdr, "notarization_required", j.dt.notarization_required_default)
      doc == [doc_key |-> j.dt.doc_key,
              label_en |-> j.dt.label_en,
              required |-> (required = 1),
              translation_required |-> (translation_required = 1),
              notarization_required |-> (notarization_required = 1)]
  IN IF Has(j.dt, "estimated_days_to_obtain")
     THEN doc @@ ("estimated_days" :> j.dt.estimated_days_to_obtain)
     ELSE doc

getDocuments(programId) ==
  LET rows == OrderDocuments(DocumentRows(programId))
  IN [i \in 1..Len(rows) |-> DocumentOutput(rows[i])]

\* the null a repository lookup returns when no row matches
Null == [isNull |-> TRUE]

IsNull(x) == Has(x, "isNull")

\* programs JOIN universities WHERE p.id = ?
ProgramRows(programId) ==
  {p \in db.programs : p.id = programId /\ p.university_id \in db.universities}

\* a repository that answers an unknown id with an empty program instead
\* of null
getProgramDetailEmptyForUnknown(programId) ==
  IF ProgramRows(programId) = {}
  THEN [id |-> programId, degree_level |-> "bachelor", intakes |-> <<>>,
        requirements |-> <<>>, documents |-> <<>>]
  ELSE LET row == CHOOSE p \in ProgramRows(programId) : TRUE
       IN [id |-> row.id,
           degree_level |-> row.degree_level,
           intakes |-> row.intakes,
           requirements |-> getRequirements(programId),
           documents |-> getDocuments(programId)]

\* ProgramRepository.getProgramDetail: null when no row matches, else the
\* program with its requirements, documents and parsed intakes
getProgramDetail(programId) ==
  IF ProgramRows(programId) = {} THEN Null
  ELSE LET row == CHOOSE p \in ProgramRows(programId) : TRUE
       IN [id |-> row.id,
           degree_level |-> row.degree_level,
           intakes |-> row.intakes,
           requirements |-> getRequirements(programId),
           documents |-> getDocuments(programId)]

-----------------------------------------------------------------------------
(* build_eligibility_snapshot *)

\* the failure response of a tool: no data, an error code
Failure(code, message_en) ==
  [success |-> FALSE, error |-> [code |-> code, message_en |-> message_en]]

Reason(rule_type, passed, reason_en) ==
  [rule_type |-> rule_type, passed |-> passed, reason_en |-> reason_en,
   data_driven |-> TRUE]

checkEducationLevel(current, desired) ==
  LET levelOrder == <<"high_school", "bachelor", "master", "phd">>
      currentIndex == indexOf(levelOrder, current)
  IN IF (desired = "bachelor" \/ desired = "associate") /\ currentIndex >= 0
     THEN [passed |-> TRUE, reason_en |-> "Education level is appropriate"]
     ELSE IF desired = "master"
     THEN IF current = "bachelor" \/ current = "master" \/ current = "phd"
          THEN [passed |-> TRUE, reason_en |-> "You have the required bachelor degree"]
          ELSE [passed |-> FALSE, reason_en |-> "Master programs require a bachelor degree"]
     ELSE IF desired = "phd"
     THEN IF current = "master" \/ current = "phd"
          THEN [passed |-> TRUE, reason_en |-> "You have the required master degree"]
          ELSE [passed |-> FALSE, reason_en |-> "PhD programs require a master degree"]
     ELSE [passed |-> TRUE, reason_en |-> "Education level is appropriate"]

\* what one call of evaluateRequirement does: the reason it returns
\* (evaluation: <<>> for null, else <<reason>>) and what it pushes onto the
\* caller's missingInfo, missingFields and assumptions arrays
Evaluation(evaluation, missingInfo, missingFields, assumptions) ==
  [evaluation |-> evaluation, missingInfo |-> missingInfo,
   missingFields |-> missingFields, assumptions |-> assumptions]

ReturnNull == Evaluation(<<>>, <<>>, <<>>, <<>>)

Missing(info, field) == Evaluation(<<>>, <<info>>, <<field>>, <<>>)

Return(reason) == Evaluation(<<reason>>, <<>>, <<>>, <<>>)

\* JavaScript truthiness of obj[f], a number: defined and not 0
TruthyNumber(obj, f) == Has(obj, f) /\ obj[f] # 0

\* JavaScript truthiness of obj[f], a string: defined and not empty
TruthyString(obj, f) == Has(obj, f) /\ obj[f] # ""

\* evaluateGpaMinimum as it was before missing_fields: a missing GPA is
\* reported as a failed reason
evaluateGpaMinimumMissingFails(req, profile) ==
  IF ~Has(profile, "gpa")
  THEN Evaluation(<<Reason("gpa_minimum", FALSE, "Program requires GPA - GPA not provided")>>,
                  <<"GPA">>, <<>>, <<>>)
  ELSE LET requiredGpa == parseFloat(req.rule_value)
           passed == JsGe(Num(profile.gpa), requiredGpa)
       IN Return(Reason("gpa_minimum", passed, "Your GPA " \o ToString(profile.gpa)))

evaluateGpaMinimum(req, profile) ==
  IF ~Has(profile, "gpa") THEN Missing("GPA", "gpa")
  ELSE LET requiredGpa == parseFloat(req.rule_value)
           passed == JsGe(Num(profile.gpa), requiredGpa)
       IN Return(Reason("gpa_minimum", passed,
            IF passed
            THEN "Your GPA " \o ToString(profile.gpa) \o " meets the minimum "
                   \o NumToString(requiredGpa)
            ELSE "Your GPA " \o ToString(profile.gpa)
                   \o " is below the required minimum " \o NumToString(requiredGpa)))

evaluateEnglish(langReq, profile) ==
  IF ~Has(profile, "english_score")
  THEN Missing("English proficiency score", "english_score")
  ELSE LET score == profile.english_score
           passed ==
             IF score.type = "ielts" /\ TruthyNumber(langReq, "ielts")
             THEN score.score >= langReq.ielts
             ELSE IF score.type = "toefl" /\ TruthyNumber(langReq, "toefl")
             THEN score.score >= langReq.toefl
             ELSE FALSE
       IN Return(Reason("language_proficiency", passed,
            IF passed THEN "English score meets the requirements"
            ELSE "English score does not meet the minimum requirement"))

evaluateTurkish(langReq, profile) ==
  IF ~Has(profile, "turkish_score")
  THEN Missing("Turkish proficiency score", "turkish_score")
  ELSE LET levelOrder == <<"A1", "A2", "B1", "B2", "C1", "C2">>
           requiredLevel == IF TruthyString(langReq, "tomer") THEN langReq.tomer ELSE "B2"
           passed == indexOf(levelOrder, profile.turkish_score.level)
                       >= indexOf(levelOrder, requiredLevel)
       IN Return(Reason("language_proficiency", passed,
            IF passed THEN "Turkish level meets the requirements"
            ELSE "Turkish level does not meet the minimum requirement ("
                   \o requiredLevel \o ")"))

CouldNotParse ==
  Evaluation(<<>>, <<>>, <<>>,
             <<"Could not parse language requirement - defaulting to needs review">>)

\* the try block: JSON.parse throws on text that is not JSON, and reading
\* .type of null throws; both land in the catch
evaluateLanguageProficiency(req, profile) ==
  LET parsed == JSONparse(req.rule_value)
  IN IF parsed.throws THEN CouldNotParse
     ELSE IF parsed.kind = "null" THEN CouldNotParse
     ELSE IF Has(parsed.o, "type") /\ parsed.o.type = "english"
     THEN evaluateEnglish(parsed.o, profile)
     ELSE IF Has(parsed.o, "type") /\ parsed.o.type = "turkish"
     THEN evaluateTurkish(parsed.o, profile)
     ELSE ReturnNull

evaluatePortfolioRequired(req, profile) ==
  IF ~Has(profile, "has_portfolio") THEN Missing("Portfolio status", "has_portfolio")
  ELSE LET passed == (profile.has_portfolio = TRUE)
       IN Return(Reason("portfolio_required", passed,
            IF passed THEN "You have a portfolio"
            ELSE "Program requires a portfolio submission"))

\* evaluateWorkExperience scoring the declared years against a threshold of
\* its own making
evaluateWorkExperienceGuessed(req, profile) ==
  IF ~Has(profile, "work_experience_years")
  THEN Missing("Work experience", "work_experience_years")
  ELSE Return([rule_type |-> "work_experience",
               passed |-> profile.work_experience_years >= 1,
               reason_en |-> "Work experience looks sufficient",
               data_driven |-> FALSE])

evaluateWorkExperience(req, profile) ==
  IF ~Has(profile, "work_experience_years")
  THEN Missing("Work experience", "work_experience_years")
  ELSE ReturnNull

evaluateRequirement(req, profile) ==
  CASE req.rule_type = "gpa_minimum" -> evaluateGpaMinimum(req, profile)
    [] req.rule_type = "language_proficiency" -> evaluateLanguageProficiency(req, profile)
    [] req.rule_type = "portfolio_required" -> evaluatePortfolioRequired(req, profile)
    [] req.rule_type = "work_experience" -> evaluateWorkExperience(req, profile)
    [] OTHER -> Evaluation(<<>>, <<>>, <<>>,
                           <<"Unknown requirement type: " \o req.rule_type>>)

\* IsMajorFailure with the first, case-sensitive text test only
IsMajorFailureCaseSensitive(r) ==
  r.rule_type = "gpa_minimum" \/ includes(r.reason_en, "Education level")

\* IsMajorFailure without the gpa_minimum test
IsMajorFailureEducationOnly(r) ==
  \/ includes(toLowerCase(r.reason_en), "education level")
  \/ includes(toLowerCase(r.reason_en), "bachelor degree")
  \/ includes(toLowerCase(r.reason_en), "master degree")
  \/ includes(toLowerCase(r.reason_en), "require a bachelor")
  \/ includes(toLowerCase(r.reason_en), "require a master")

IsMajorFailure(r) ==
  \/ r.rule_type = "gpa_minimum"
  \/ includes(toLowerCase(r.reason_en), "education level")
  \/ includes(toLowerCase(r.reason_en), "bachelor degree")
  \/ includes(toLowerCase(r.reason_en), "master degree")
  \/ includes(toLowerCase(r.reason_en), "require a bachelor")
  \/ includes(toLowerCase(r.reason_en), "require a master")

IsFailedRequired(r) == ~r.passed /\ r.data_driven

\* determineStatus treating missing data as a disqualifier
determineStatusMissingUnlikely(reasons, missingInfo) ==
  LET failedRequired == SelectSeq(reasons, IsFailedRequired)
      majorFailures == SelectSeq(failedRequired, IsMajorFailure)
  IN IF Len(majorFailures) > 0 \/ Len(missingInfo) > 0 THEN "unlikely"
     ELSE IF \A i \in 1..Len(reasons) : reasons[i].passed THEN "likely_eligible"
     ELSE "needs_review"

\* determineStatus treating every failed reason as a major failure
determineStatusAnyFailure(reasons, missingInfo) ==
  LET failedRequired == SelectSeq(reasons, IsFailedRequired)
  IN IF Len(failedRequired) > 0 THEN "unlikely"
     ELSE IF Len(missingInfo) > 0 THEN "needs_review"
     ELSE IF \A i \in 1..Len(reasons) : reasons[i].passed THEN "likely_eligible"
     ELSE "needs_review"

determineStatus(reasons, missingInfo) ==
  LET failedRequired == SelectSeq(reasons, IsFailedRequired)
      majorFailures == SelectSeq(failedRequired, IsMajorFailure)
  IN IF Len(failedRequired) > 0 /\ Len(majorFailures) > 0 THEN "unlikely"
     ELSE IF Len(missingInfo) > 0 THEN "needs_review"
     ELSE IF \A i \in 1..Len(reasons) : reasons[i].passed THEN "likely_eligible"
     ELSE "needs_review"

\* the reason buildEligibilitySnapshot pushes for the education-level check
EducationReason(educationLevelOk) ==
  IF ~educationLevelOk.passed
  THEN Reason("other", FALSE, educationLevelOk.reason_en)
  ELSE Reason("other", TRUE, "Education level is appropriate for the program")

RECURSIVE EvaluateAll(_, _, _)
\* the for loop over programDetail.requirements, from index i on
EvaluateAll(requirements, profile, acc) ==
  IF requirements = <<>> THEN acc
  ELSE LET e == evaluateRequirement(Head(requirements), profile)
       IN EvaluateAll(Tail(requirements), profile,
            [reasons |-> acc.reasons \o e.evaluation,
             missingInfo |-> acc.missingInfo \o e.missingInfo,
             missingFields |-> acc.missingFields \o e.missingFields,
             assumptions |-> acc.assumptions \o e.assumptions])

buildEligibilitySnapshot(call) ==
  LET programDetail == getProgramDetail(call.program_id)
  IN IF IsNull(programDetail) THEN Failure("PROGRAM_NOT_FOUND", "Program not found")
     ELSE LET educationLevelOk ==
                checkEducationLevel(call.profile.current_education_level,
                                    programDetail.degree_level)
              acc == EvaluateAll(programDetail.requirements, call.profile,
                       [reasons |-> <<EducationReason(educationLevelOk)>>,
                        missingInfo |-> <<>>, missingFields |-> <<>>,
                        assumptions |-> <<>>])
          IN [success |-> TRUE,
              data |-> [status |-> determineStatus(acc.reasons, acc.missingInfo),
                        reasons |-> acc.reasons,
                        missing_info |-> acc.missingInfo,
                        missing_fields |-> acc.missingFields,
                        assumptions |-> acc.assumptions]]

-----------------------------------------------------------------------------
(* get_program_detail *)

getProgramDetailTool(call) ==
  LET program == getProgramDetail(call.program_id)
  IN IF IsNull(program) THEN Failure("PROGRAM_NOT_FOUND", "Program not found")
     ELSE [success |-> TRUE, data |-> program]

-----------------------------------------------------------------------------
(* build_document_checklist *)

\* the English halves of WHY_NEEDED
WHY_NEEDED ==
  [high_school_diploma |-> "Required to prove completion of secondary education",
   high_school_transcript |-> "Required to evaluate your academic performance",
   passport_copy |-> "Required for identity verification and visa application",
   personal_photo |-> "Required for student file and university ID card",
   english_proficiency |-> "Required to demonstrate ability to study in English",
   turkish_proficiency |-> "Required to demonstrate ability to study in Turkish",
   bachelor_diploma |-> "Required to prove completion of bachelor degree",
   bachelor_transcript |-> "Required to evaluate your undergraduate academic performance",
   cv_resume |-> "Required to showcase your experience and skills",
   motivation_letter |-> "Required to explain your reasons for choosing the program",
   recommendation_letters |-> "Required to provide academic evaluation from your professors",
   master_diploma |-> "Required to prove completion of master degree",
   master_transcript |-> "Required to evaluate your graduate academic performance",
   research_proposal |-> "Required to outline your intended research area",
   portfolio |-> "Required to showcase your artistic or design work",
   health_certificate |-> "Required to verify health fitness for the program"]

whyNeeded(doc_key) ==
  IF doc_key \in DOMAIN WHY_NEEDED THEN WHY_NEEDED[doc_key]
  ELSE "Required according to program requirements"

hagueCountries ==
  <<"Saudi Arabia", "UAE", "Egypt", "Jordan", "Morocco", "Tunisia",
    "Kuwait", "Qatar", "Bahrain", "Oman", "Algeria", "Iraq", "Libya",
    "Syria", "Lebanon", "Palestine", "Yemen", "Sudan">>

getApostilleNotes(nationality) ==
  LET lowerNationality == toLowerCase(nationality)
  IN IF \E i \in 1..Len(hagueCountries) :
          includes(lowerNationality, toLowerCase(hagueCountries[i]))
     THEN "May require attestation from Turkish Embassy"
     ELSE "Please verify attestation requirements for your country"

\* a filter that keeps graduate documents for master's holders only
SkippedForLevelBelowMaster(doc, profile) ==
  \/ includes(doc.doc_key, "bachelor") /\ profile.current_education_level = "high_school"
  \/ includes(doc.doc_key, "master") /\ profile.current_education_level # "master"

\* the two continue statements of the document loop
SkippedForLevel(doc, profile) ==
  \/ includes(doc.doc_key, "bachelor") /\ profile.current_education_level = "high_school"
  \/ includes(doc.doc_key, "master")
       /\ profile.current_education_level \notin {"master", "phd"}

\* estimated_days stays absent when the document has none
ChecklistItem(doc, profile) ==
  LET item == [doc_key |-> doc.doc_key,
               label_en |-> doc.label_en,
               applies_to |-> "All applicants",
               required |-> doc.required,
               translation_required |-> doc.translation_required,
               notarization_required |-> doc.notarization_required,
               apostille_notes |-> getApostilleNotes(profile.nationality),
               why_needed_en |-> whyNeeded(doc.doc_key),
               priority |-> IF doc.required THEN "required" ELSE "recommended"]
  IN IF Has(doc, "estimated_days")
     THEN item @@ ("estimated_days" :> doc.estimated_days)
     ELSE item

RECURSIVE ChecklistLoop(_, _, _)
\* the for loop over programDetail.documents
ChecklistLoop(documents, profile, acc) ==
  IF documents = <<>> THEN acc
  ELSE LET doc == Head(documents)
       IN IF SkippedForLevel(doc, profile)
          THEN ChecklistLoop(Tail(documents), profile, acc)
          ELSE ChecklistLoop(Tail(documents), profile,
                 [items |-> Append(acc.items, ChecklistItem(doc, profile)),
                  assumptions |->
                    IF doc.translation_required /\ doc.notarization_required
                    THEN Append(acc.assumptions,
                           doc.label_en \o " requires both translation and notarization based on default rules")
                    ELSE acc.assumptions])

\* (x.estimated_days || 0)
EstimatedOrZero(x) == IF Has(x, "estimated_days") THEN x.estimated_days ELSE 0

\* a comparator that looks at the estimated days only
CompareItemsByDaysOnly(a, b) == EstimatedOrZero(a) - EstimatedOrZero(b)

\* the comparator of items.sort: negative, zero or positive
CompareItems(a, b) ==
  IF a.priority = "required" /\ b.priority # "required" THEN -1
  ELSE IF b.priority = "required" /\ a.priority # "required" THEN 1
  ELSE EstimatedOrZero(a) - EstimatedOrZero(b)

\* x placed into the sorted array after every element that does not
\* compare greater than it (Array.prototype.sort is stable)
InsertItem(sorted, x) ==
  LET after == {i \in 1..Len(sorted) : CompareItems(sorted[i], x) > 0}
      at == IF after = {} THEN Len(sorted) + 1
            ELSE CHOOSE i \in after : \A j \in after : i <= j
  IN SubSeq(sorted, 1, at - 1) \o <<x>> \o SubSeq(sorted, at, Len(sorted))

RECURSIVE SortItems(_, _)
SortItems(items, sorted) ==
  IF items = <<>> THEN sorted
  ELSE SortItems(Tail(items), InsertItem(sorted, Head(items)))

buildDocumentChecklist(call) ==
  LET programDetail == getProgramDetail(call.program_id)
  IN IF IsNull(programDetail) THEN Failure("PROGRAM_NOT_FOUND", "Program not found")
     ELSE LET acc == ChecklistLoop(programDetail.documents, call.profile,
                                   [items |-> <<>>, assumptions |-> <<>>])
          IN [success |-> TRUE,
              data |-> [items |-> SortItems(acc.items, <<>>),
                        unknowns |->
                          IF Len(programDetail.documents) = 0
                          THEN <<"Document requirements not available for this program">>
                          ELSE <<>>,
                        assumptions |-> acc.assumptions]]

-----------------------------------------------------------------------------
(* build_timeline *)

DEFAULT_TASK_DURATIONS ==
  [high_school_diploma |-> 7, high_school_transcript |-> 5, passport_copy |-> 1,
   personal_photo |-> 1, english_proficiency |-> 14, turkish_proficiency |-> 14,
   bachelor_diploma |-> 7, bachelor_transcript |-> 5, cv_resume |-> 3,
   motivation_letter |-> 5, recommendation_letters |-> 14, master_diploma |-> 7,
   master_transcript |-> 5, research_proposal |-> 21, portfolio |-> 21,
   health_certificate |-> 7, translation |-> 5, notarization |-> 3, submission |-> 1]

\* item.estimated_days || DEFAULT_TASK_DURATIONS[item.doc_key] || 7
BaseDays(item) ==
  IF Has(item, "estimated_days") /\ item.estimated_days # 0 THEN item.estimated_days
  ELSE IF item.doc_key \in DOMAIN DEFAULT_TASK_DURATIONS
            /\ DEFAULT_TASK_DURATIONS[item.doc_key] # 0
       THEN DEFAULT_TASK_DURATIONS[item.doc_key]
  ELSE 7

TimelineTaskOf(item) ==
  [doc_key |-> item.doc_key,
   label_en |-> item.label_en,
   estimated_days |->
     BaseDays(item)
       + (IF item.translation_required THEN DEFAULT_TASK_DURATIONS.translation ELSE 0)
       + (IF item.notarization_required THEN DEFAULT_TASK_DURATIONS.notarization ELSE 0),
   required |-> (item.priority = "required")]

\* x placed into the array sorted by descending estimated_days, after every
\* element that does not sort after it (Array.prototype.sort is stable)
InsertTask(sorted, x) ==
  LET after == {i \in 1..Len(sorted) : x.estimated_days - sorted[i].estimated_days > 0}
      at == IF after = {} THEN Len(sorted) + 1
            ELSE CHOOSE i \in after : \A j \in after : i <= j
  IN SubSeq(sorted, 1, at - 1) \o <<x>> \o SubSeq(sorted, at, Len(sorted))

RECURSIVE SortTasks(_, _)
SortTasks(tasks, sorted) ==
  IF tasks = <<>> THEN sorted
  ELSE SortTasks(Tail(tasks), InsertTask(sorted, Head(tasks)))

\* a comparison turned around: the tasks at or below 70% of the maximum
OnCriticalPathInverted(task, maxDuration) == 10 * task.estimated_days <= 7 * maxDuration

\* task.estimated_days >= maxDuration * 0.7, on integers (the double product
\* never exceeds the exact one for durations of this size)
OnCriticalPath(task, maxDuration) == 10 * task.estimated_days >= 7 * maxDuration

\* critical_path_items of the sorted tasks
CriticalPathItems(tasks) ==
  LET maxDuration == IF Len(tasks) > 0 THEN tasks[1].estimated_days ELSE 0
      IsCritical(t) == OnCriticalPath(t, maxDuration)
      critical == SelectSeq(tasks, IsCritical)
  IN [i \in 1..Len(critical) |-> critical[i].doc_key]

\* i matches the requested intake: either contains the other, ignoring case
IntakeMatches(i, intake_target) ==
  \/ includes(toLowerCase(i), toLowerCase(intake_target))
  \/ includes(toLowerCase(intake_target), toLowerCase(i))

\* a resolution that keeps the default label when no target is given
ResolveIntakeKeepsDefault(call, intakes) ==
  LET given == TruthyString(call, "intake_target")
      initial == IF given THEN call.intake_target ELSE "September"
  IN IF Len(intakes) > 0 /\ given
          /\ \E i \in 1..Len(intakes) : IntakeMatches(intakes[i], call.intake_target)
     THEN [targetIntake |->
             intakes[CHOOSE i \in 1..Len(intakes) :
                       /\ IntakeMatches(intakes[i], call.intake_target)
                       /\ \A j \in 1..(i - 1) :
                            ~IntakeMatches(intakes[j], call.intake_target)],
           intakeDateKnown |-> TRUE, noIntakes |-> FALSE]
     ELSE [targetIntake |-> initial, intakeDateKnown |-> FALSE,
           noIntakes |-> Len(intakes) = 0]

\* target intake and whether the intake date is known
ResolveIntake(call, intakes) ==
  LET given == TruthyString(call, "intake_target")
      initial == IF given THEN call.intake_target ELSE "September"
  IN IF Len(intakes) > 0
     THEN IF given
          THEN IF \E i \in 1..Len(intakes) : IntakeMatches(intakes[i], call.intake_target)
               THEN [targetIntake |->
                       intakes[CHOOSE i \in 1..Len(intakes) :
                                 /\ IntakeMatches(intakes[i], call.intake_target)
                                 /\ \A j \in 1..(i - 1) :
                                      ~IntakeMatches(intakes[j], call.intake_target)],
                     intakeDateKnown |-> TRUE, noIntakes |-> FALSE]
               ELSE [targetIntake |-> initial, intakeDateKnown |-> FALSE,
                     noIntakes |-> FALSE]
          ELSE [targetIntake |-> intakes[1], intakeDateKnown |-> TRUE,
                noIntakes |-> FALSE]
     ELSE [targetIntake |-> initial, intakeDateKnown |-> FALSE, noIntakes |-> TRUE]

\* Array.prototype.slice(from, to), 0-based, to exclusive
slice(arr, from, to) ==
  SubSeq(arr, from + 1, IF to < Len(arr) THEN to ELSE Len(arr))

TimelineTask(task, verb, critical) ==
  [doc_key |-> task.doc_key, task_en |-> verb \o " " \o task.label_en,
   is_critical_path |-> critical, estimated_days |-> task.estimated_days]

FixedTask(doc_key, task_en, critical, days) ==
  [doc_key |-> doc_key, task_en |-> task_en, is_critical_path |-> critical,
   estimated_days |-> days]

\* a schedule that submits the application in both final weeks
WeekTasksSubmittingTwice(weekNum, totalWeeks, criticalTasks, requiredTasks) ==
  IF weekNum <= 2
  THEN LET started == slice(criticalTasks, 0, 2)
       IN [i \in 1..Len(started) |-> TimelineTask(started[i], "Start obtaining", TRUE)]
  ELSE IF weekNum <= 4
  THEN LET followed == slice(slice(criticalTasks, 2, Len(criticalTasks)), 0, 1)
           started == slice(requiredTasks, 0, 2)
       IN [i \in 1..Len(followed) |-> TimelineTask(followed[i], "Follow up on", TRUE)]
            \o [i \in 1..Len(started) |-> TimelineTask(started[i], "Start obtaining", FALSE)]
  ELSE IF weekNum <= 6
  THEN LET completed == slice(requiredTasks, 2, Len(requiredTasks))
       IN [i \in 1..Len(completed) |-> TimelineTask(completed[i], "Complete", FALSE)]
            \o <<FixedTask("translation_notarization",
                           "Submit documents for translation and notarization", TRUE, 8)>>
  ELSE <<FixedTask("final_review", "Final review of all documents", FALSE, 2)>>
         \o (IF weekNum >= totalWeeks - 1
             THEN <<FixedTask("submission", "Submit application", TRUE, 1)>>
             ELSE <<>>)

\* the tasks of week weekNum (start_date and end_date, which follow the
\* clock, are left out)
WeekTasks(weekNum, totalWeeks, criticalTasks, requiredTasks) ==
  IF weekNum <= 2
  THEN LET started == slice(criticalTasks, 0, 2)
       IN [i \in 1..Len(started) |-> TimelineTask(started[i], "Start obtaining", TRUE)]
  ELSE IF weekNum <= 4
  THEN LET followed == slice(slice(criticalTasks, 2, Len(criticalTasks)), 0, 1)
           started == slice(requiredTasks, 0, 2)
       IN [i \in 1..Len(followed) |-> TimelineTask(followed[i], "Follow up on", TRUE)]
            \o [i \in 1..Len(started) |-> TimelineTask(started[i], "Start obtaining", FALSE)]
  ELSE IF weekNum <= 6
  THEN LET completed == slice(requiredTasks, 2, Len(requiredTasks))
       IN [i \in 1..Len(completed) |-> TimelineTask(completed[i], "Complete", FALSE)]
            \o <<FixedTask("translation_notarization",
                           "Submit documents for translation and notarization", TRUE, 8)>>
  ELSE <<FixedTask("final_review", "Final review of all documents", FALSE, 2)>>
         \o (IF weekNum = totalWeeks
             THEN <<FixedTask("submission", "Submit application", TRUE, 1)>>
             ELSE <<>>)

generateWeeklySchedule(tasks, totalWeeks, criticalPathItems) ==
  LET InCritical(t) == \E i \in 1..Len(criticalPathItems) : criticalPathItems[i] = t.doc_key
      IsCriticalTask(t) == InCritical(t) /\ t.required
      IsRequiredTask(t) == ~InCritical(t) /\ t.required
      criticalTasks == SelectSeq(tasks, IsCriticalTask)
      requiredTasks == SelectSeq(tasks, IsRequiredTask)
  IN [weekNum \in 1..totalWeeks |->
        [week_number |-> weekNum,
         tasks |-> WeekTasks(weekNum, totalWeeks, criticalTasks, requiredTasks)]]

\* the assumptions buildTimeline collects, in the order it pushes them
TimelineAssumptions(intake, tasks) ==
  (IF intake.noIntakes
   THEN <<"Intake dates not available - using generic 8-week timeline">> ELSE <<>>)
  \o (IF ~intake.intakeDateKnown
      THEN <<"Timeline is based on an 8-week preparation period">> ELSE <<>>)
  \o (IF \E i \in 1..Len(tasks) : tasks[i].estimated_days = 0
      THEN <<"Some task durations are estimated based on typical processing times">>
      ELSE <<>>)

\* the part of buildTimeline after its two reads: the schedule of the
\* checklist's items and the intake resolved from the program's intakes
TimelineResult(call, items, intakes) ==
  LET tasks == SortTasks([i \in 1..Len(items) |-> TimelineTaskOf(items[i])], <<>>)
      criticalPathItems == CriticalPathItems(tasks)
      intake == ResolveIntake(call, intakes)
  IN [success |-> TRUE,
      data |-> [weeks |-> generateWeeklySchedule(tasks, 8, criticalPathItems),
                critical_path_items |-> criticalPathItems,
                target_intake |-> intake.targetIntake,
                assumptions |-> TimelineAssumptions(intake, tasks)]]

buildTimeline(call) ==
  LET checklistResponse ==
        buildDocumentChecklist([profile |-> call.profile, program_id |-> call.program_id])
  IN IF ~checklistResponse.success
     THEN Failure("CHECKLIST_ERROR", "Could not determine required documents")
     ELSE LET programDetail == getProgramDetail(call.program_id)
          IN IF IsNull(programDetail)
             THEN Failure("PROGRAM_NOT_FOUND", "Program not found")
             ELSE TimelineResult(call, checklistResponse.data.items, programDetail.intakes)

-----------------------------------------------------------------------------
(* Texts beyond ASCII: keywords and program names as sequences of Unicode
   code points (all of them below U+10000, so one UTF-16 unit each) *)

\* the printable ASCII characters in code order: U+0020 to U+005F, and
\* U+0061 to U+007E
AsciiUpperHalf ==
  " !\"#$%&'()*+,-./0123456789:;<=>?@ABCDEFGHIJKLMNOPQRSTUVWXYZ[\\]^_"

AsciiLowerHalf == "abcdefghijklmnopqrstuvwxyz{|}~"

CodePoint(c) ==
  IF \E i \in 1..Len(AsciiUpperHalf) : SubSeq(AsciiUpperHalf, i, i) = c
  THEN 31 + (CHOOSE i \in 1..Len(AsciiUpperHalf) : SubSeq(AsciiUpperHalf, i, i) = c)
  ELSE 96 + (CHOOSE i \in 1..Len(AsciiLowerHalf) : SubSeq(AsciiLowerHalf, i, i) = c)

\* the code points of an ASCII string
Text(s) == [i \in 1..Len(s) |-> CodePoint(SubSeq(s, i, i))]

\* String.prototype.toLowerCase on one character of the Latin (up to
\* U+017F) and Arabic blocks; capital I with dot above becomes two units
LowerCodePoints(c) ==
  IF c \in 65..90 \/ (c \in 192..222 /\ c # 215) THEN <<c + 32>>
  ELSE IF c = 304 THEN <<105, 775>>
  ELSE IF c = 376 THEN <<255>>
  ELSE IF (c \in 256..303 \/ c \in 306..311 \/ c \in 330..375) /\ c % 2 = 0
       THEN <<c + 1>>
  ELSE IF (c \in 313..328 \/ c \in 377..382) /\ c % 2 = 1 THEN <<c + 1>>
  ELSE <<c>>

RECURSIVE toLowerCaseText(_)
\* String.prototype.toLowerCase
toLowerCaseText(s) ==
  IF s = <<>> THEN <<>>
  ELSE LowerCodePoints(Head(s)) \o toLowerCaseText(Tail(s))

\* \w of a regular expression without the u flag
IsWord(c) == c \in 48..57 \/ c \in 65..90 \/ c = 95 \/ c \in 97..122

\* \s: white space and line terminators
IsSpace(c) ==
  \/ c \in 9..13
  \/ c \in {32, 160, 5760, 8232, 8233, 8239, 8287, 12288, 65279}
  \/ c \in 8192..8202

\* ؀-ۿ
IsArabic(c) == c \in 1536..1791

RECURSIVE trimStart(_)
trimStart(s) ==
  IF s # <<>> /\ IsSpace(Head(s)) THEN trimStart(Tail(s)) ELSE s

RECURSIVE trimEnd(_)
trimEnd(s) ==
  IF s # <<>> /\ IsSpace(s[Len(s)]) THEN trimEnd(SubSeq(s, 1, Len(s) - 1)) ELSE s

\* String.prototype.trim
trim(s) == trimEnd(trimStart(s))

RECURSIVE join(_, _)
\* Array.prototype.join
join(arr, sep) ==
  IF arr = <<>> THEN <<>>
  ELSE IF Len(arr) = 1 THEN arr[1]
  ELSE arr[1] \o sep \o join(Tail(arr), sep)

\* Set.prototype.add on a Set kept in insertion order
SetAdd(set, x) ==
  IF \E i \in 1..Len(set) : set[i] = x THEN set ELSE Append(set, x)

RECURSIVE SetAddAll(_, _)
SetAddAll(set, xs) ==
  IF xs = <<>> THEN set ELSE SetAddAll(SetAdd(set, Head(xs)), Tail(xs))

-----------------------------------------------------------------------------
(* search_programs: keyword expansion *)

\* synonym groups, in the order of the object literal
KEYWORD_SYNONYMS ==
  <<
    [term |-> Text("computer engineering"),
     synonyms |->
       << Text("ce"),
          Text("ceng"),
          Text("comp eng"),
          \* bilgisayar mühendisliği
          Text("bilgisayar m") \o <<252>> \o Text("hendisli") \o <<287>> \o Text("i"),
          \* هندسة الحاسوب
          <<1607, 1606, 1583, 1587, 1577>> \o Text(" ") \o <<1575, 1604, 1581, 1575, 1587, 1608, 1576>>,
          \* هندسة حاسوب
          <<1607, 1606, 1583, 1587, 1577>> \o Text(" ") \o <<1581, 1575, 1587, 1608, 1576>> >>],
    [term |-> Text("ce"),
     synonyms |->
       << Text("computer engineering"),
          Text("ceng"),
          Text("comp eng"),
          \* bilgisayar mühendisliği
          Text("bilgisayar m") \o <<252>> \o Text("hendisli") \o <<287>> \o Text("i"),
          \* هندسة الحاسوب
          <<1607, 1606, 1583, 1587, 1577>> \o Text(" ") \o <<1575, 1604, 1581, 1575, 1587, 1608, 1576>> >>],
    [term |-> Text("ceng"),
     synonyms |->
       << Text("computer engineering"),
          Text("ce"),
          Text("comp eng"),
          \* bilgisayar mühendisliği
          Text("bilgisayar m") \o <<252>> \o Text("hendisli") \o <<287>> \o Text("i"),
          \* هندسة الحاسوب
          <<1607, 1606, 1583, 1587, 1577>> \o Text(" ") \o <<1575, 1604, 1581, 1575, 1587, 1608, 1576>> >>],
    [term |-> Text("computer science"),
     synonyms |->
       << Text("cs"),
          Text("comp sci"),
          Text("bilgisayar bilimleri"),
          \* علوم الحاسوب
          <<1593, 1604, 1608, 1605>> \o Text(" ") \o <<1575, 1604, 1581, 1575, 1587, 1608, 1576>>,
          \* علوم حاسوب
          <<1593, 1604, 1608, 1605>> \o Text(" ") \o <<1581, 1575, 1587, 1608, 1576>> >>],
    [term |-> Text("cs"),
     synonyms |->
       << Text("computer science"),
          Text("comp sci"),
          Text("bilgisayar bilimleri"),
          \* علوم الحاسوب
          <<1593, 1604, 1608, 1605>> \o Text(" ") \o <<1575, 1604, 1581, 1575, 1587, 1608, 1576>> >>],
    [term |-> Text("software engineering"),
     synonyms |->
       << Text("se"),
          Text("soft eng"),
          \* yazılım mühendisliği
          Text("yaz") \o <<305>> \o Text("l") \o <<305>> \o Text("m m") \o <<252>> \o Text("hendisli") \o <<287>> \o Text("i"),
          \* هندسة البرمجيات
          <<1607, 1606, 1583, 1587, 1577>> \o Text(" ") \o <<1575, 1604, 1576, 1585, 1605, 1580, 1610, 1575, 1578>> >>],
    [term |-> Text("se"),
     synonyms |->
       << Text("software engineering"),
          Text("soft eng"),
          \* yazılım mühendisliği
          Text("yaz") \o <<305>> \o Text("l") \o <<305>> \o Text("m m") \o <<252>> \o Text("hendisli") \o <<287>> \o Text("i"),
          \* هندسة البرمجيات
          <<1607, 1606, 1583, 1587, 1577>> \o Text(" ") \o <<1575, 1604, 1576, 1585, 1605, 1580, 1610, 1575, 1578>> >>],
    [term |-> Text("electrical engineering"),
     synonyms |->
       << Text("ee"),
          Text("elec eng"),
          \* elektrik mühendisliği
          Text("elektrik m") \o <<252>> \o Text("hendisli") \o <<287>> \o Text("i"),
          \* الهندسة الكهربائية
          <<1575, 1604, 1607, 1606, 1583, 1587, 1577>> \o Text(" ") \o <<1575, 1604, 1603, 1607, 1585, 1576, 1575, 1574, 1610, 1577>>,
          \* هندسة كهربائية
          <<1607, 1606, 1583, 1587, 1577>> \o Text(" ") \o <<1603, 1607, 1585, 1576, 1575, 1574, 1610, 1577>> >>],
    [term |-> Text("ee"),
     synonyms |->
       << Text("electrical engineering"),
          Text("elec eng"),
          \* elektrik mühendisliği
          Text("elektrik m") \o <<252>> \o Text("hendisli") \o <<287>> \o Text("i"),
          \* الهندسة الكهربائية
          <<1575, 1604, 1607, 1606, 1583, 1587, 1577>> \o Text(" ") \o <<1575, 1604, 1603, 1607, 1585, 1576, 1575, 1574, 1610, 1577>> >>],
    [term |-> Text("electronics"),
     synonyms |->
       << Text("electronic engineering"),
          Text("elektronik"),
          \* إلكترونيات
          <<1573, 1604, 1603, 1578, 1585, 1608, 1606, 1610, 1575, 1578>> >>],
    [term |-> Text("business administration"),
     synonyms |->
       << Text("ba"),
          Text("business"),
          \* işletme
          Text("i") \o <<351>> \o Text("letme"),
          \* إدارة الأعمال
          <<1573, 1583, 1575, 1585, 1577>> \o Text(" ") \o <<1575, 1604, 1571, 1593, 1605, 1575, 1604>>,
          \* ادارة اعمال
          <<1575, 1583, 1575, 1585, 1577>> \o Text(" ") \o <<1575, 1593, 1605, 1575, 1604>> >>],
    [term |-> Text("mba"),
     synonyms |->
       << Text("master of business administration"),
          Text("business administration"),
          \* ماجستير إدارة الأعمال
          <<1605, 1575, 1580, 1587, 1578, 1610, 1585>> \o Text(" ") \o <<1573, 1583, 1575, 1585, 1577>> \o Text(" ") \o <<1575, 1604, 1571, 1593, 1605, 1575, 1604>> >>],
    [term |-> Text("medicine"),
     synonyms |->
       << Text("md"),
          \* tıp
          Text("t") \o <<305>> \o Text("p"),
          \* الطب
          <<1575, 1604, 1591, 1576>>,
          \* طب
          <<1591, 1576>> >>],
    [term |-> Text("medical"),
     synonyms |->
       << Text("medicine"),
          \* tıp
          Text("t") \o <<305>> \o Text("p"),
          \* طب
          <<1591, 1576>> >>],
    [term |-> Text("architecture"),
     synonyms |->
       << Text("arch"),
          \* mimarlık
          Text("mimarl") \o <<305>> \o Text("k"),
          \* الهندسة المعمارية
          <<1575, 1604, 1607, 1606, 1583, 1587, 1577>> \o Text(" ") \o <<1575, 1604, 1605, 1593, 1605, 1575, 1585, 1610, 1577>>,
          \* عمارة
          <<1593, 1605, 1575, 1585, 1577>> >>],
    [term |-> Text("law"),
     synonyms |->
       << Text("llb"),
          Text("hukuk"),
          \* القانون
          <<1575, 1604, 1602, 1575, 1606, 1608, 1606>>,
          \* قانون
          <<1602, 1575, 1606, 1608, 1606>> >>],
    [term |-> Text("psychology"),
     synonyms |->
       << Text("psych"),
          Text("psikoloji"),
          \* علم النفس
          <<1593, 1604, 1605>> \o Text(" ") \o <<1575, 1604, 1606, 1601, 1587>> >>],
    [term |-> Text("nursing"),
     synonyms |->
          \* hemşirelik
       << Text("hem") \o <<351>> \o Text("irelik"),
          \* التمريض
          <<1575, 1604, 1578, 1605, 1585, 1610, 1590>>,
          \* تمريض
          <<1578, 1605, 1585, 1610, 1590>> >>],
    [term |-> Text("engineering"),
     synonyms |->
       << Text("eng"),
          \* mühendislik
          Text("m") \o <<252>> \o Text("hendislik"),
          \* هندسة
          <<1607, 1606, 1583, 1587, 1577>> >>]
  >>

NEAR_EQUIVALENTS ==
  <<
    [term |-> Text("computer engineering"),
     synonyms |->
       << Text("computer science"),
          Text("software engineering"),
          Text("electrical engineering") >>],
    [term |-> Text("computer science"),
     synonyms |->
       << Text("computer engineering"),
          Text("software engineering"),
          Text("artificial intelligence") >>],
    [term |-> Text("software engineering"),
     synonyms |->
       << Text("computer science"),
          Text("computer engineering") >>],
    [term |-> Text("electrical engineering"),
     synonyms |->
       << Text("electronics"),
          Text("computer engineering"),
          Text("mechanical engineering") >>],
    [term |-> Text("business administration"),
     synonyms |->
       << Text("economics"),
          Text("international business"),
          Text("finance") >>]
  >>

\* keep the characters outside [^\w\s؀-ۿ]
KeptByNormalize(c) == IsWord(c) \/ IsSpace(c) \/ IsArabic(c)

normalizeKeyword(keyword) ==
  trim(SelectSeq(toLowerCaseText(keyword), KeptByNormalize))

normalizeAll(arr) == [j \in 1..Len(arr) |-> normalizeKeyword(arr[j])]

\* the lower-case names every object inherits from Object.prototype: looked
\* up in an object literal they give a value that is neither undefined nor
\* an array
InheritedProperties == {Text("constructor"), Text("__proto__")}

\* table[key] of an object literal: the array of an own entry, an inherited
\* property, or undefined
Lookup(table, key) ==
  IF \E i \in 1..Len(table) : table[i].term = key
  THEN [kind |-> "array",
        value |-> table[CHOOSE i \in 1..Len(table) : table[i].term = key].synonyms]
  ELSE IF key \in InheritedProperties THEN [kind |-> "inherited"]
  ELSE [kind |-> "undefined"]

NormalizeTable(table) ==
  [i \in 1..Len(table) |->
     [term |-> normalizeKeyword(table[i].term),
      synonyms |-> normalizeAll(table[i].synonyms)]]

\* the normalized terms and member lists of KEYWORD_SYNONYMS
NormalizedSynonyms == NormalizeTable(KEYWORD_SYNONYMS)

\* the note pushed to synonymsApplied: "keyword" -> [first three, ...]
SynonymNote(keyword, synonyms) ==
  Text("\"") \o keyword \o Text("\" ") \o <<8594>> \o Text(" [")
    \o join(slice(synonyms, 0, 3), Text(", "))
    \o (IF Len(synonyms) > 3 THEN Text("...") ELSE <<>>)
    \o Text("]")

\* one entry of Object.entries(KEYWORD_SYNONYMS): when a member of the group
\* normalizes to the keyword, the main term and all members are added
GroupStep(expanded, normalized, entry) ==
  IF \E j \in 1..Len(entry.synonyms) : entry.synonyms[j] = normalized
  THEN SetAddAll(SetAdd(expanded, entry.term), entry.synonyms)
  ELSE expanded

RECURSIVE GroupLoop(_, _, _)
\* the loop over Object.entries(KEYWORD_SYNONYMS)
GroupLoop(expanded, normalized, entries) ==
  IF entries = <<>> THEN expanded
  ELSE GroupLoop(GroupStep(expanded, normalized, Head(entries)), normalized,
                 Tail(entries))

\* the body of the loop over keywords, given synonyms = KEYWORD_SYNONYMS[normalized];
\* calling slice on an inherited property throws
ExpandStep(acc, keyword, normalized, synonyms) ==
  IF synonyms.kind = "inherited" THEN [acc EXCEPT !.threw = TRUE]
  ELSE IF synonyms.kind = "array"
  THEN [threw |-> FALSE,
        expanded |->
          GroupLoop(SetAddAll(SetAdd(acc.expanded, normalized),
                              normalizeAll(synonyms.value)),
                    normalized, NormalizedSynonyms),
        synonymsApplied |->
          Append(acc.synonymsApplied, SynonymNote(keyword, synonyms.value))]
  ELSE [acc EXCEPT !.expanded =
          GroupLoop(SetAdd(acc.expanded, normalized), normalized, NormalizedSynonyms)]

ExpandNormalized(acc, keyword, normalized) ==
  ExpandStep(acc, keyword, normalized, Lookup(KEYWORD_SYNONYMS, normalized))

RECURSIVE ExpandLoop(_, _)
ExpandLoop(keywords, acc) ==
  IF keywords = <<>> \/ acc.threw THEN acc
  ELSE ExpandLoop(Tail(keywords),
                  ExpandNormalized(acc, Head(keywords), normalizeKeyword(Head(keywords))))

expandKeywords(keywords) ==
  ExpandLoop(keywords, [threw |-> FALSE, expanded |-> <<>>, synonymsApplied |-> <<>>])

\* the body of the loop over keywords, given nearEq = NEAR_EQUIVALENTS[normalized];
\* iterating an inherited property, which is not iterable, throws
NearEquivalentStep(acc, nearEq) ==
  IF nearEq.kind = "inherited" THEN [acc EXCEPT !.threw = TRUE]
  ELSE IF nearEq.kind = "array"
  THEN [acc EXCEPT !.equivalents = SetAddAll(acc.equivalents, nearEq.value)]
  ELSE acc

RECURSIVE NearEquivalentLoop(_, _)
NearEquivalentLoop(keywords, acc) ==
  IF keywords = <<>> \/ acc.threw THEN acc
  ELSE NearEquivalentLoop(Tail(keywords),
         NearEquivalentStep(acc, Lookup(NEAR_EQUIVALENTS, normalizeKeyword(Head(keywords)))))

getNearEquivalentKeywords(keywords) ==
  NearEquivalentLoop(keywords, [threw |-> FALSE, equivalents |-> <<>>])

-----------------------------------------------------------------------------
(* ProgramRepository.searchPrograms *)

\* SQLite folds the case of ASCII letters only, in LOWER and in LIKE
AsciiFold(c) == IF c \in 65..90 THEN c + 32 ELSE c

RECURSIVE LikeMatch(_, _)
\* text LIKE pattern: % is any run of characters, _ is any one character
LikeMatch(pattern, text) ==
  IF pattern = <<>> THEN text = <<>>
  ELSE IF Head(pattern) = 37
  THEN \E k \in 0..Len(text) :
         LikeMatch(Tail(pattern), SubSeq(text, k + 1, Len(text)))
  ELSE /\ text # <<>>
       /\ Head(pattern) = 95 \/ AsciiFold(Head(pattern)) = AsciiFold(Head(text))
       /\ LikeMatch(Tail(pattern), Tail(text))

\* LOWER(column) LIKE searchTerm, with searchTerm = % keyword.toLowerCase() %
NameLike(column, keyword) ==
  LikeMatch(<<37>> \o toLowerCaseText(keyword) \o <<37>>,
            [i \in 1..Len(column) |-> AsciiFold(column[i])])

KeywordCondition(p, major_keywords) ==
  \E i \in 1..Len(major_keywords) :
    \/ NameLike(p.program_name_en, major_keywords[i])
    \/ NameLike(p.program_name_ar, major_keywords[i])

\* the WHERE clause the query is built into
SearchWhere(p, profile, filters) ==
  /\ p.active_flag = 1
  /\ p.university_id \in db.universities
  /\ TruthyString(profile, "desired_degree_level")
       => p.degree_level = profile.desired_degree_level
  /\ (TruthyString(profile, "preferred_language") /\ profile.preferred_language # "mixed")
       => (p.language = profile.preferred_language \/ p.language = "mixed")
  /\ TruthyString(profile, "city_preference")
       => toLowerCase(p.city) = toLowerCase(profile.city_preference)
  /\ TruthyNumber(profile, "budget_max") => p.tuition_min <= profile.budget_max
  /\ TruthyNumber(profile, "budget_min") => p.tuition_max >= profile.budget_min
  /\ TruthyString(filters, "degree_level") => p.degree_level = filters.degree_level
  /\ TruthyString(filters, "language") => p.language = filters.language
  /\ TruthyString(filters, "city") => toLowerCase(p.city) = toLowerCase(filters.city)
  /\ TruthyString(filters, "university_id") => p.university_id = filters.university_id
  /\ (Has(profile, "major_keywords") /\ Len(profile.major_keywords) > 0)
       => KeywordCondition(p, profile.major_keywords)

RECURSIVE OrderByTuition(_)
\* ORDER BY p.tuition_min ASC; rows of equal tuition_min in table order
OrderByTuition(rows) ==
  IF rows = {} THEN <<>>
  ELSE LET first == CHOOSE r \in rows :
                      \A q \in rows : \/ r.tuition_min < q.tuition_min
                                      \/ r.tuition_min = q.tuition_min /\ r.rowid <= q.rowid
       IN <<first>> \o OrderByTuition(rows \ {first})

\* the row as a search result (the verification and source columns, which
\* follow the clock and other tables, are left out)
mapToSearchResult(row) ==
  [id |-> row.id,
   program_name_ar |-> row.program_name_ar,
   program_name_en |-> row.program_name_en,
   degree_level |-> row.degree_level,
   language |-> row.language,
   city |-> row.city,
   tuition_min |-> row.tuition_min,
   tuition_max |-> row.tuition_max,
   intakes |-> row.intakes]

repoSearchPrograms(profile, filters) ==
  LET rows == OrderByTuition({p \in db.programs : SearchWhere(p, profile, filters)})
  IN [i \in 1..Len(rows) |-> mapToSearchResult(rows[i])]

-----------------------------------------------------------------------------
(* search_programs *)

\* the profile with major_keywords replaced; undefined removes the field
WithKeywords(profile, major_keywords) ==
  LET rest == [f \in DOMAIN profile \ {"major_keywords"} |-> profile[f]]
  IN IF major_keywords = <<>> THEN rest
     ELSE rest @@ ("major_keywords" :> major_keywords)

\* the filters_applied notes, in the order they are pushed
FiltersApplied(profile, originalKeywords) ==
  (IF TruthyString(profile, "desired_degree_level")
   THEN <<Text("degree_level: " \o profile.desired_degree_level)>> ELSE <<>>)
  \o (IF TruthyString(profile, "preferred_language")
      THEN <<Text("language: " \o profile.preferred_language)>> ELSE <<>>)
  \o (IF TruthyString(profile, "city_preference")
      THEN <<Text("city: " \o profile.city_preference)>> ELSE <<>>)
  \o (IF TruthyNumber(profile, "budget_max")
      THEN <<Text("max_budget: " \o ToString(profile.budget_max))>> ELSE <<>>)
  \o (IF Len(originalKeywords) > 0
      THEN <<Text("keywords: ") \o join(originalKeywords, Text(", "))>> ELSE <<>>)

\* the suggestions pushed before the keyword suggestions (English halves)
EarlySuggestions(profile) ==
  (IF TruthyString(profile, "city_preference")
   THEN <<Text("Try searching in other cities")>> ELSE <<>>)
  \o (IF TruthyNumber(profile, "budget_max") /\ profile.budget_max < 10000
      THEN <<Text("Try increasing your budget for more options")>> ELSE <<>>)

ContactAdvisor == <<Text("Contact an education advisor for help")>>

\* a search for near-equivalents that keeps the keywords and drops the other
\* predicates of the profile and the filters
NearEquivalentSearchLoosened(profile, filters, nearEqKeywords, nearEqExpanded) ==
  IF nearEqExpanded.threw THEN [threw |-> TRUE]
  ELSE [threw |-> FALSE,
        suggestions |->
          EarlySuggestions(profile)
          \o <<Text("Would you accept alternatives like: ")
                 \o join(nearEqKeywords, Text(", ")) \o Text("?")>>
          \o ContactAdvisor,
        nearEquivalents |->
          repoSearchPrograms([major_keywords |-> nearEqExpanded.expanded], NoFields)]

\* the search for near-equivalents, given nearEqExpanded = expandKeywords(nearEqKeywords)
NearEquivalentSearch(profile, filters, nearEqKeywords, nearEqExpanded) ==
  IF nearEqExpanded.threw THEN [threw |-> TRUE]
  ELSE [threw |-> FALSE,
        suggestions |->
          EarlySuggestions(profile)
          \o <<Text("Would you accept alternatives like: ")
                 \o join(nearEqKeywords, Text(", ")) \o Text("?")>>
          \o ContactAdvisor,
        nearEquivalents |->
          repoSearchPrograms(
            [f \in DOMAIN profile \ {"major_keywords"} |-> profile[f]]
              @@ ("major_keywords" :> nearEqExpanded.expanded),
            filters)]

\* the keyword suggestions, given nearEq = getNearEquivalentKeywords(originalKeywords)
KeywordSuggestions(profile, filters, nearEq) ==
  IF nearEq.threw THEN [threw |-> TRUE]
  ELSE IF Len(nearEq.equivalents) > 0
  THEN NearEquivalentSearch(profile, filters, nearEq.equivalents,
                            expandKeywords(nearEq.equivalents))
  ELSE [threw |-> FALSE,
        suggestions |-> EarlySuggestions(profile)
                          \o <<Text("Try using different search keywords")>>
                          \o ContactAdvisor,
        nearEquivalents |-> <<>>]

\* the branch taken when the primary search returned no row
NoResults(profile, filters, originalKeywords) ==
  IF Len(originalKeywords) > 0
  THEN KeywordSuggestions(profile, filters, getNearEquivalentKeywords(originalKeywords))
  ELSE [threw |-> FALSE,
        suggestions |-> EarlySuggestions(profile) \o ContactAdvisor,
        nearEquivalents |-> <<>>]

\* the response, given the suggestions and near-equivalents
SearchResponse(profile, originalKeywords, expansion, programs, rest) ==
  IF rest.threw THEN Failure("SEARCH_ERROR", "An error occurred during search")
  ELSE [success |-> TRUE,
        data |-> [programs |-> programs,
                  total_count |-> Len(programs),
                  filters_applied |-> FiltersApplied(profile, originalKeywords),
                  query_info |->
                    [original_keywords |-> originalKeywords,
                     expanded_keywords |-> expansion.expanded,
                     synonyms_applied |-> expansion.synonymsApplied],
                  suggestions |-> rest.suggestions,
                  near_equivalents |-> rest.nearEquivalents]]

\* the steps after the primary search returned programs
SearchFound(profile, filters, originalKeywords, expansion, programs) ==
  SearchResponse(profile, originalKeywords, expansion, programs,
    IF Len(programs) = 0
    THEN NoResults(profile, filters, originalKeywords)
    ELSE [threw |-> FALSE, suggestions |-> <<>>, nearEquivalents |-> <<>>])

\* the steps after expansion = expandKeywords(originalKeywords)
SearchExpanded(profile, filters, originalKeywords, expansion) ==
  IF expansion.threw THEN Failure("SEARCH_ERROR", "An error occurred during search")
  ELSE SearchFound(profile, filters, originalKeywords, expansion,
         repoSearchPrograms(WithKeywords(profile, expansion.expanded), filters))

SearchKeywords(profile, filters, originalKeywords) ==
  SearchExpanded(profile, filters, originalKeywords, expandKeywords(originalKeywords))

searchPrograms(call) ==
  SearchKeywords(call.profile,
                 IF Has(call, "filters") THEN call.filters ELSE NoFields,
                 IF Has(call.profile, "major_keywords")
                 THEN call.profile.major_keywords ELSE <<>>)

-----------------------------------------------------------------------------
(* Catalogs and requests of the eligibility specification *)

\* the requirement rows a catalog draws from: rows of program p1, one row
\* of p1's university (program_id NULL) and one row of another program
RulePool ==
  { [id |-> 1, program_id |-> "p1", university_id |-> "u1", required_flag |-> 1,
     rule_type |-> "gpa_minimum", rule_value |-> NumText(60)],
    [id |-> 2, program_id |-> "p1", university_id |-> "u1", required_flag |-> 1,
     rule_type |-> "gpa_minimum", rule_value |-> BadText],
    [id |-> 3, program_id |-> "p1", university_id |-> "u1", required_flag |-> 1,
     rule_type |-> "language_proficiency",
     rule_value |-> ObjText([type |-> "english", ielts |-> 60, toefl |-> 80])],
    [id |-> 4, program_id |-> "p1", university_id |-> "u1", required_flag |-> 1,
     rule_type |-> "language_proficiency",
     rule_value |-> ObjText([type |-> "turkish", tomer |-> "B2"])],
    [id |-> 5, program_id |-> "p1", university_id |-> "u1", required_flag |-> 1,
     rule_type |-> "language_proficiency", rule_value |-> BadText],
    [id |-> 6, program_id |-> "p1", university_id |-> "u1", required_flag |-> 0,
     rule_type |-> "portfolio_required", rule_value |-> BadText],
    [id |-> 7, program_id |-> "p1", university_id |-> "u1", required_flag |-> 0,
     rule_type |-> "work_experience", rule_value |-> NumText(2)],
    [id |-> 8, program_id |-> "p1", university_id |-> "u1", required_flag |-> 1,
     rule_type |-> "interview_required", rule_value |-> BadText],
    [id |-> 9, program_id |-> NULL, university_id |-> "u1", required_flag |-> 1,
     rule_type |-> "gpa_minimum", rule_value |-> NumText(70)],
    [id |-> 10, program_id |-> "p2", university_id |-> "u2", required_flag |-> 1,
     rule_type |-> "portfolio_required", rule_value |-> BadText] }

EducationLevels == {"high_school", "bachelor", "master", "phd"}

Program(id, university_id, degree_level, intakes) ==
  [id |-> id, university_id |-> university_id, degree_level |-> degree_level,
   intakes |-> intakes]

\* the optional fields of a profile: absent, or one of a few values
OptionalField(f, values) == {NoFields} \cup {f :> v : v \in values}

EligibilityProfiles ==
  { [nationality |-> "Egyptian", current_education_level |-> c,
     desired_degree_level |-> "bachelor"] @@ g @@ e @@ t @@ p @@ w :
      c \in EducationLevels,
      g \in OptionalField("gpa", {40, 80}),
      e \in OptionalField("english_score",
              {[type |-> "ielts", score |-> 50], [type |-> "toefl", score |-> 90]}),
      t \in OptionalField("turkish_score",
              {[type |-> "tomer", level |-> "B1"], [type |-> "tomer", level |-> "C1"]}),
      p \in OptionalField("has_portfolio", {TRUE, FALSE}),
      w \in OptionalField("work_experience_years", {2}) }

NoInput == [tool |-> "none"]

NoOutput == [success |-> FALSE, error |-> [code |-> "NONE", message_en |-> ""]]

\* a catalog: program p1 of any degree level, program p2, and up to
\* MaxRules rows of the requirements table
InitEligibility ==
  /\ \E d \in {"bachelor", "master", "phd", "associate"}, rules \in SUBSET RulePool :
       /\ Cardinality(rules) <= MaxRules
       /\ db = [universities |-> {"u1", "u2"},
                programs |-> {Program("p1", "u1", d, <<"September", "February">>),
                              Program("p2", "u2", "master", <<>>)},
                requirements |-> rules,
                document_templates |-> {},
                program_document_rules |-> {}]
  /\ input = NoInput
  /\ output = NoOutput

\* the server is idle: the last response has been delivered
Idle == input.tool = "none"

\* the response is delivered and the server awaits the next call
Respond ==
  /\ ~Idle
  /\ input' = NoInput
  /\ output' = NoOutput
  /\ UNCHANGED db

BuildEligibilitySnapshot(call) ==
  /\ Idle
  /\ input' = [tool |-> "build_eligibility_snapshot"] @@ call
  /\ output' = buildEligibilitySnapshot(call)
  /\ UNCHANGED db

\* every profile against program p1
EligibilityCalls ==
  { [profile |-> profile, program_id |-> "p1"] : profile \in EligibilityProfiles }

NextEligibility ==
  \/ \E call \in EligibilityCalls : BuildEligibilitySnapshot(call)
  \/ Respond

SpecEligibility == InitEligibility /\ [][NextEligibility]_vars

-----------------------------------------------------------------------------
(* Catalogs and requests of the tools specification *)

DocumentTemplate(doc_key, label_en, translation, notarization) ==
  [doc_key |-> doc_key, label_en |-> label_en,
   translation_required_default |-> translation,
   notarization_required_default |-> notarization]

\* seeded templates, and one template added without an estimate
DocumentTemplates ==
  { DocumentTemplate("high_school_diploma", "High School Diploma", 1, 1)
      @@ ("estimated_days_to_obtain" :> 7),
    DocumentTemplate("passport_copy", "Passport Copy", 0, 0)
      @@ ("estimated_days_to_obtain" :> 1),
    DocumentTemplate("bachelor_diploma", "Bachelor Degree Certificate", 1, 1)
      @@ ("estimated_days_to_obtain" :> 7),
    DocumentTemplate("bachelor_transcript", "Bachelor Transcript", 1, 1)
      @@ ("estimated_days_to_obtain" :> 5),
    DocumentTemplate("master_transcript", "Master Transcript", 1, 1)
      @@ ("estimated_days_to_obtain" :> 5),
    DocumentTemplate("research_proposal", "Research Proposal", 0, 0)
      @@ ("estimated_days_to_obtain" :> 14),
    DocumentTemplate("portfolio", "Portfolio", 0, 0)
      @@ ("estimated_days_to_obtain" :> 14),
    DocumentTemplate("equivalence_letter", "Equivalence Letter", 0, 1) }

DocumentRule(id, program_id, doc_key, required_flag) ==
  [id |-> id, program_id |-> program_id, doc_key |-> doc_key,
   required_flag |-> required_flag]

\* the rows inserted into program_document_rules that a catalog draws from,
\* with the columns each INSERT names; a NULL translation_required or
\* notarization_required is an absent field
DocumentRulePool ==
  { DocumentRule(1, "p1", "high_school_diploma", 1) @@ ("notarization_required" :> 0),
    DocumentRule(2, "p1", "passport_copy", 1) @@ ("translation_required" :> 1),
    DocumentRule(3, "p1", "bachelor_diploma", 1) @@ ("translation_required" :> 0),
    DocumentRule(4, "p1", "master_transcript", 0),
    DocumentRule(5, "p1", "research_proposal", 1) @@ ("notarization_required" :> 1),
    DocumentRule(6, "p1", "portfolio", 0),
    [id |-> 7, program_id |-> "p1", doc_key |-> "equivalence_letter"],
    [id |-> 8, program_id |-> "p2", doc_key |-> "passport_copy"],
    DocumentRule(9, "p1", "bachelor_transcript", 1) }

\* the row an INSERT stores: required_flag INTEGER NOT NULL DEFAULT 1
InsertDefaults(rule) ==
  IF Has(rule, "required_flag") THEN rule ELSE rule @@ ("required_flag" :> 1)

IntakeLists == {<<"September", "February">>, <<"February", "September">>, <<>>}

ProgramIds == {"p1", "p2", "non-existent"}

PlanningProfiles ==
  { [nationality |-> n, current_education_level |-> c, desired_degree_level |-> "master"] :
      n \in {"Egyptian", "German"}, c \in EducationLevels }

DetailCalls == { [program_id |-> program_id] : program_id \in ProgramIds }

ChecklistCalls ==
  { [profile |-> profile, program_id |-> program_id] :
      profile \in PlanningProfiles, program_id \in ProgramIds }

\* intake_target is optional
TimelineCalls ==
  { call @@ target :
      call \in ChecklistCalls, target \in OptionalField("intake_target", {"february", "Fall 2024"}) }

\* the planning profiles, with and without a GPA
SnapshotCalls ==
  { [profile |-> profile @@ gpa, program_id |-> program_id] :
      profile \in PlanningProfiles, gpa \in OptionalField("gpa", {40, 80}),
      program_id \in ProgramIds }

\* a catalog: program p1 with any of the intake lists, program p2, two
\* requirement rows and up to MaxDocs rows of program_document_rules
InitTools ==
  /\ \E intakes \in IntakeLists, rules \in SUBSET DocumentRulePool :
       /\ Cardinality(rules) <= MaxDocs
       /\ db = [universities |-> {"u1", "u2"},
                programs |-> {Program("p1", "u1", "master", intakes),
                              Program("p2", "u2", "bachelor", <<"September">>)},
                requirements |-> {r \in RulePool : r.id \in {1, 6}},
                document_templates |-> DocumentTemplates,
                program_document_rules |-> {InsertDefaults(r) : r \in rules}]
  /\ input = NoInput
  /\ output = NoOutput

GetProgramDetail(call) ==
  /\ Idle
  /\ input' = [tool |-> "get_program_detail"] @@ call
  /\ output' = getProgramDetailTool(call)
  /\ UNCHANGED db

BuildDocumentChecklist(call) ==
  /\ Idle
  /\ input' = [tool |-> "build_document_checklist"] @@ call
  /\ output' = buildDocumentChecklist(call)
  /\ UNCHANGED db

BuildTimeline(call) ==
  /\ Idle
  /\ input' = [tool |-> "build_timeline"] @@ call
  /\ output' = buildTimeline(call)
  /\ UNCHANGED db

NextTools ==
  \/ \E call \in DetailCalls : GetProgramDetail(call)
  \/ \E call \in ChecklistCalls : BuildDocumentChecklist(call)
  \/ \E call \in TimelineCalls : BuildTimeline(call)
  \/ \E call \in SnapshotCalls : BuildEligibilitySnapshot(call)
  \/ Respond

SpecTools == InitTools /\ [][NextTools]_vars

-----------------------------------------------------------------------------
(* Catalogs and requests of the search specification *)

\* the rows of the programs table a catalog draws from, in table order
SearchProgramPool ==
  { [rowid |-> 1, id |-> "p1", university_id |-> "u1",
     program_name_en |-> Text("Computer Engineering"),
     \* هندسة الحاسوب
     program_name_ar |-> <<1607, 1606, 1583, 1587, 1577, 32,
                           1575, 1604, 1581, 1575, 1587, 1608, 1576>>,
     degree_level |-> "bachelor", language |-> "en", city |-> "Istanbul",
     tuition_min |-> 3000, tuition_max |-> 5000,
     intakes |-> <<"September">>, active_flag |-> 1],
    [rowid |-> 2, id |-> "p2", university_id |-> "u1",
     program_name_en |-> Text("Computer Science"),
     \* علوم الحاسوب
     program_name_ar |-> <<1593, 1604, 1608, 1605, 32,
                           1575, 1604, 1581, 1575, 1587, 1608, 1576>>,
     degree_level |-> "master", language |-> "tr", city |-> "Ankara",
     tuition_min |-> 1000, tuition_max |-> 2000,
     intakes |-> <<"September", "February">>, active_flag |-> 1],
    [rowid |-> 3, id |-> "p3", university_id |-> "u2",
     \* Bilgisayar Mühendisliği
     program_name_en |-> Text("Bilgisayar M") \o <<252>> \o Text("hendisli")
                           \o <<287>> \o Text("i"),
     \* هندسة الكمبيوتر
     program_name_ar |-> <<1607, 1606, 1583, 1587, 1577, 32, 1575, 1604,
                           1603, 1605, 1576, 1610, 1608, 1578, 1585>>,
     degree_level |-> "bachelor", language |-> "mixed", city |-> "Istanbul",
     tuition_min |-> 0, tuition_max |-> 0,
     intakes |-> <<>>, active_flag |-> 1],
    [rowid |-> 4, id |-> "p4", university_id |-> "u2",
     program_name_en |-> Text("Software Engineering"),
     \* هندسة البرمجيات
     program_name_ar |-> <<1607, 1606, 1583, 1587, 1577, 32, 1575, 1604,
                           1576, 1585, 1605, 1580, 1610, 1575, 1578>>,
     degree_level |-> "bachelor", language |-> "en", city |-> "Izmir",
     tuition_min |-> 6000, tuition_max |-> 9000,
     intakes |-> <<"September">>, active_flag |-> 0] }

KeywordPool ==
  { Text("ce"), Text("CS"), Text("C.E."), Text("robotics"),
    Text("Software Engineering"), Text("constructor"), Text("medical"),
    Text("computer_science") }

\* major_keywords: absent, or a list of at most MaxKeywords keywords
KeywordLists ==
  UNION { [1..n -> KeywordPool] : n \in 0..MaxKeywords }

SearchProfiles ==
  { d @@ l @@ c @@ hi @@ lo :
      d \in OptionalField("desired_degree_level", {"bachelor"}),
      l \in OptionalField("preferred_language", {"en", "mixed"}),
      c \in OptionalField("city_preference", {"istanbul"}),
      hi \in OptionalField("budget_max", {0, 4000}),
      lo \in OptionalField("budget_min", {2500}) }

SearchFilters ==
  { [degree_level |-> "master"], [language |-> "en"], [city |-> "ANKARA"],
    [university_id |-> "u2"], [budget_max |-> 500], [budget_min |-> 5500] }

\* keyword lists against a few profiles, and every profile and filter with
\* and without a keyword
SearchCalls ==
  { [profile |-> p @@ ("major_keywords" :> k)] :
      p \in { NoFields, [desired_degree_level |-> "bachelor"],
              [city_preference |-> "Istanbul"] },
      k \in KeywordLists }
  \cup
  { [profile |-> p @@ k] @@ f :
      p \in SearchProfiles,
      k \in OptionalField("major_keywords", {<<Text("ce")>>}),
      f \in OptionalField("filters", SearchFilters) }

\* a catalog of up to MaxPrograms programs
InitSearch ==
  /\ \E programs \in SUBSET SearchProgramPool :
       /\ Cardinality(programs) <= MaxPrograms
       /\ db = [universities |-> {"u1", "u2"},
                programs |-> programs,
                requirements |-> {},
                document_templates |-> {},
                program_document_rules |-> {}]
  /\ input = NoInput
  /\ output = NoOutput

SearchPrograms(call) ==
  /\ Idle
  /\ input' = [tool |-> "search_programs"] @@ call
  /\ output' = searchPrograms(call)
  /\ UNCHANGED db

NextSearch ==
  \/ \E call \in SearchCalls : SearchPrograms(call)
  \/ Respond

SpecSearch == InitSearch /\ [][NextSearch]_vars

-----------------------------------------------------------------------------
(* Properties of build_eligibility_snapshot *)

\* a successful eligibility result is on display
EligibilityDone == input.tool = "build_eligibility_snapshot" /\ output.success

\* the rules the evaluated program is judged by
AppliedRules ==
  LET rules == getRequirements(input.program_id)
  IN {rules[i] : i \in 1..Len(rules)}

\* the profile field a rule reads, "none" when it reads no field
NeededField(req) ==
  CASE req.rule_type = "gpa_minimum" -> "gpa"
    [] req.rule_type = "portfolio_required" -> "has_portfolio"
    [] req.rule_type = "work_experience" -> "work_experience_years"
    [] req.rule_type = "language_proficiency" /\ req.rule_value.t = "obj"
         /\ Has(req.rule_value.o, "type") /\ req.rule_value.o.type = "english"
         -> "english_score"
    [] req.rule_type = "language_proficiency" /\ req.rule_value.t = "obj"
         /\ Has(req.rule_value.o, "type") /\ req.rule_value.o.type = "turkish"
         -> "turkish_score"
    [] OTHER -> "none"

\* the rule reads a field the profile does not have
LacksField(req) ==
  NeededField(req) # "none" /\ ~Has(input.profile, NeededField(req))

\* the education-level table of the specification
PrerequisiteMet(current, target) ==
  CASE target \in {"bachelor", "associate"} -> TRUE
    [] target = "master" -> current \in {"bachelor", "master", "phd"}
    [] target = "phd" -> current \in {"master", "phd"}

TargetLevel == getProgramDetail(input.program_id).degree_level

Reasons == output.data.reasons

ReasonSet == {Reasons[i] : i \in 1..Len(Reasons)}

FailedReasons(rule_type) ==
  {i \in 1..Len(Reasons) : Reasons[i].rule_type = rule_type /\ ~Reasons[i].passed}

MissingFields == {output.data.missing_fields[i] : i \in 1..Len(output.data.missing_fields)}

\* C1: every reason of a successful eligibility result, the education-level
\* reason and each per-rule reason, has data_driven = true
C1_AllReasonsDataDriven ==
  EligibilityDone => \A r \in ReasonSet : r.data_driven = TRUE

C1_Witness ==
  /\ EligibilityDone
  /\ Len(Reasons) >= 3
  /\ \E r \in ReasonSet : ~r.passed

\* C2: a profile that lacks a field some rule of the program reads, whose
\* education level meets the prerequisite and against which no gpa_minimum
\* rule was evaluated as failed, gets needs_review (so never unlikely); a
\* gpa_minimum rule counts as failed when the evaluator emitted a failed
\* gpa_minimum reason for it
C2_MissingDataNeedsReview ==
  ( /\ EligibilityDone
    /\ \E req \in AppliedRules : LacksField(req)
    /\ PrerequisiteMet(input.profile.current_education_level, TargetLevel)
    /\ FailedReasons("gpa_minimum") = {} )
  => output.data.status = "needs_review"

C2_Witness ==
  /\ EligibilityDone
  /\ \E req \in AppliedRules : LacksField(req)
  /\ PrerequisiteMet(input.profile.current_education_level, TargetLevel)
  /\ FailedReasons("gpa_minimum") = {}
  /\ FailedReasons("portfolio_required") # {}
  /\ output.data.status = "needs_review"

\* the profile's GPA is strictly below the numeric minimum some gpa_minimum
\* rule of the program declares
GpaBelowDeclaredMinimum ==
  /\ Has(input.profile, "gpa")
  /\ \E req \in AppliedRules :
       /\ req.rule_type = "gpa_minimum"
       /\ req.rule_value.t = "num"
       /\ input.profile.gpa < req.rule_value.v

\* C3: a GPA strictly below a declared minimum gives status unlikely and a
\* failed gpa_minimum reason, whatever else is missing or evaluated
C3_GpaBelowMinimumUnlikely ==
  (EligibilityDone /\ GpaBelowDeclaredMinimum)
  => /\ output.data.status = "unlikely"
     /\ FailedReasons("gpa_minimum") # {}

C3_Witness ==
  /\ EligibilityDone
  /\ GpaBelowDeclaredMinimum
  /\ Cardinality(MissingFields) >= 1
  /\ output.data.status = "unlikely"

\* the stored payload of a rule cannot be read as its kind requires
Uninterpretable(req) ==
  \/ req.rule_type = "gpa_minimum" /\ req.rule_value.t # "num"
  \/ req.rule_type = "language_proficiency" /\ req.rule_value.t \in {"bad", "null"}

\* C4: a rule whose payload cannot be interpreted is never held against the
\* student: evaluating it yields no failed reason and an assumption, and when
\* the program's only gpa_minimum rules are such rules the result has no
\* failed gpa_minimum reason and, the prerequisite being met, is not unlikely
C4_UninterpretableRuleNotHeldAgainstStudent ==
  EligibilityDone =>
    /\ \A req \in AppliedRules :
         Uninterpretable(req) =>
           LET e == evaluateRequirement(req, input.profile)
           IN /\ \A i \in 1..Len(e.evaluation) : e.evaluation[i].passed
              /\ LacksField(req) \/ e.assumptions # <<>>
    /\ ( /\ \A req \in AppliedRules :
              req.rule_type = "gpa_minimum" => Uninterpretable(req)
         /\ PrerequisiteMet(input.profile.current_education_level, TargetLevel) )
       => /\ FailedReasons("gpa_minimum") = {}
          /\ output.data.status # "unlikely"

\* C7: the education-level reason passes exactly as the table says for the
\* level the program is offered at, and whenever it fails the status is
\* unlikely
C7_EducationPrerequisite ==
  EligibilityDone =>
    /\ Reasons[1].passed
         <=> PrerequisiteMet(input.profile.current_education_level, TargetLevel)
    /\ ~Reasons[1].passed => output.data.status = "unlikely"

C7_Witness ==
  /\ EligibilityDone
  /\ ~Reasons[1].passed
  /\ TargetLevel = "phd"
  /\ input.profile.current_education_level = "bachelor"
  /\ Cardinality(MissingFields) >= 1
  /\ output.data.status = "unlikely"

\* the rules of one kind whose field the profile supplies
ScorableRules(rule_type) ==
  {req \in AppliedRules : req.rule_type = rule_type /\ ~LacksField(req)}

\* C8: every rule that reads an absent profile field puts the field's name
\* in missing_fields and yields no reason; so the failed reasons of a kind
\* never outnumber the rules of that kind whose field the profile supplies
C8_MissingFieldNeverFails ==
  EligibilityDone =>
    /\ \A req \in AppliedRules :
         LacksField(req) =>
           /\ NeededField(req) \in MissingFields
           /\ evaluateRequirement(req, input.profile).evaluation = <<>>
    /\ \A k \in {"gpa_minimum", "language_proficiency", "portfolio_required",
                 "work_experience"} :
         Cardinality(FailedReasons(k)) <= Cardinality(ScorableRules(k))

C8_Witness ==
  /\ EligibilityDone
  /\ \E r1 \in AppliedRules, r2 \in AppliedRules :
       /\ r1.rule_type = "gpa_minimum" /\ LacksField(r1)
       /\ r2.rule_type = "language_proficiency" /\ LacksField(r2)
  /\ {"gpa", "english_score"} \subseteq MissingFields
  /\ Len(Reasons) = 1

\* a hard disqualifier was found: the education-level reason failed or a
\* gpa_minimum reason failed
HardDisqualifier == ~Reasons[1].passed \/ FailedReasons("gpa_minimum") # {}

C9_WitnessSoftFailure ==
  /\ EligibilityDone
  /\ FailedReasons("language_proficiency") # {}
  /\ ~HardDisqualifier
  /\ output.data.missing_fields = <<>>
  /\ output.data.status = "needs_review"

-----------------------------------------------------------------------------
(* Properties of the not-found condition *)

\* the call named a program id that no row of the catalog carries
UnknownProgram ==
  /\ ~Idle
  /\ \A p \in db.programs : p.id # input.program_id

NotFoundTools ==
  {"build_eligibility_snapshot", "build_document_checklist", "get_program_detail"}

\* C5: buildEligibilitySnapshot, buildDocumentChecklist and getProgramDetail
\* called with a program id that is not in the catalog return success = false
\* with error code PROGRAM_NOT_FOUND and no data: no status, no reasons and no
\* item list come back for an unknown program
C5_UnknownProgramIsNotFound ==
  (UnknownProgram /\ input.tool \in NotFoundTools) =>
    /\ output.success = FALSE
    /\ output.error.code = "PROGRAM_NOT_FOUND"
    /\ ~Has(output, "data")

C5_Witness ==
  /\ UnknownProgram
  /\ input.tool = "build_document_checklist"
  /\ db.program_document_rules # {}
  /\ output.success = FALSE
  /\ output.error.code = "PROGRAM_NOT_FOUND"

\* C6: buildTimeline called with a program id that is not in the catalog
\* produces no week and returns the not-found code PROGRAM_NOT_FOUND that
\* buildDocumentChecklist reports for the same call
C6_TimelinePropagatesNotFound ==
  (UnknownProgram /\ input.tool = "build_timeline") =>
    /\ output.success = FALSE
    /\ ~Has(output, "data")
    /\ output.error.code = "PROGRAM_NOT_FOUND"
    /\ output.error.code =
         buildDocumentChecklist([profile |-> input.profile,
                                 program_id |-> input.program_id]).error.code

-----------------------------------------------------------------------------
(* Properties of keyword expansion *)

SearchDone == input.tool = "search_programs" /\ output.success

\* t is one of the expanded keywords of the response
Expanded(t) ==
  \E i \in 1..Len(output.data.query_info.expanded_keywords) :
    output.data.query_info.expanded_keywords[i] = t

\* C10: for every keyword whose normalized form is an entry of the synonym
\* table, the expanded keywords contain the normalized keyword and every
\* member of its synonym group, and synonyms_applied is not empty
C10_ExpansionContainsSynonymGroup ==
  SearchDone =>
    \A i \in 1..Len(output.data.query_info.original_keywords) :
      \A e \in 1..Len(KEYWORD_SYNONYMS) :
        KEYWORD_SYNONYMS[e].term
            = normalizeKeyword(output.data.query_info.original_keywords[i])
        => /\ Expanded(KEYWORD_SYNONYMS[e].term)
           /\ \A j \in 1..Len(KEYWORD_SYNONYMS[e].synonyms) :
                Expanded(KEYWORD_SYNONYMS[e].synonyms[j])
           /\ output.data.query_info.synonyms_applied # <<>>

\* C11: expanding the expanded keywords of a response once more adds no
\* term: every term of the second expansion is already an expanded keyword
C11_ExpansionIdempotent ==
  SearchDone =>
    LET again == expandKeywords(output.data.query_info.expanded_keywords).expanded
    IN \A i \in 1..Len(again) : Expanded(again[i])

-----------------------------------------------------------------------------
(* Properties of the document checklist *)

ChecklistDone == input.tool = "build_document_checklist" /\ output.success

\* the program_document_rules row of the requested program for a document
RuleOf(doc_key) ==
  CHOOSE r \in db.program_document_rules :
    r.program_id = input.program_id /\ r.doc_key = doc_key

TemplateOf(doc_key) == CHOOSE t \in db.document_templates : t.doc_key = doc_key

\* the rule's own flag when it is set, else the template's default
EffectiveFlag(doc_key, flag, default) ==
  IF Has(RuleOf(doc_key), flag) THEN RuleOf(doc_key)[flag] = 1
  ELSE TemplateOf(doc_key)[default] = 1

\* the inserted rule of the requested program for a document named no required_flag
RequiredUnspecified(doc_key) ==
  \E r \in DocumentRulePool :
    /\ r.id = RuleOf(doc_key).id
    /\ ~Has(r, "required_flag")

\* the documents of the requested program as a response shows them: the
\* items of a checklist, or the documents of a program detail
ResolvedDocuments ==
  IF input.tool = "build_document_checklist" /\ output.success
  THEN output.data.items
  ELSE IF input.tool = "get_program_detail" /\ output.success
  THEN output.data.documents
  ELSE <<>>

\* C12: every document a checklist or a program detail shows carries, as
\* translation_required and as notarization_required, the flag of the
\* program's document rule when the rule sets it (to true or to false) and
\* the template's default when the rule leaves it unset; a document whose
\* rule was inserted without a required flag is required
C12_OverrideCorrect ==
  \A i \in 1..Len(ResolvedDocuments) :
    LET doc == ResolvedDocuments[i]
    IN /\ doc.translation_required
            = EffectiveFlag(doc.doc_key, "translation_required",
                            "translation_required_default")
       /\ doc.notarization_required
            = EffectiveFlag(doc.doc_key, "notarization_required",
                            "notarization_required_default")
       /\ RequiredUnspecified(doc.doc_key) => doc.required

\* the checklist has an item for the document with these flags
HasItem(doc_key, translation, notarization) ==
  \E i \in 1..Len(output.data.items) :
    /\ output.data.items[i].doc_key = doc_key
    /\ output.data.items[i].translation_required = translation
    /\ output.data.items[i].notarization_required = notarization

\* an override to false over a default of true, an override to true over a
\* default of false, and a rule with nothing set, in one checklist
C12_Witness ==
  /\ ChecklistDone
  /\ HasItem("bachelor_diploma", FALSE, TRUE)
  /\ HasItem("passport_copy", TRUE, FALSE)
  /\ HasItem("equivalence_letter", FALSE, TRUE)
  /\ RequiredUnspecified("equivalence_letter")

-----------------------------------------------------------------------------
(* Properties of the timeline *)

TimelineDone == input.tool = "build_timeline" /\ output.success

\* the documents the repository resolves for the requested program
ProgramDocuments == getDocuments(input.program_id)

\* those of them that pass the education-level filter of the checklist
ApplicableDocuments ==
  LET Applies(doc) == ~SkippedForLevel(doc, input.profile)
  IN SelectSeq(ProgramDocuments, Applies)

\* the total duration of a document: base days plus the translation and
\* notarization buffers
TotalDays(doc) == TimelineTaskOf(ChecklistItem(doc, input.profile)).estimated_days

\* the document is on the critical path of the response
Critical(doc) ==
  \E i \in 1..Len(output.data.critical_path_items) :
    output.data.critical_path_items[i] = doc.doc_key

\* every document of docs that no other document of docs outlasts is on the
\* critical path
LongestAreCritical(docs) ==
  \A i \in 1..Len(docs) :
    (\A j \in 1..Len(docs) : TotalDays(docs[j]) <= TotalDays(docs[i]))
      => Critical(docs[i])

\* C13 as stated: a successful timeline has a non-empty critical path
\* whenever the program has a required document, and the critical path
\* contains the program's document of the longest total duration
C13_CriticalPathOfProgram ==
  TimelineDone =>
    /\ (\E i \in 1..Len(ProgramDocuments) : ProgramDocuments[i].required)
         => output.data.critical_path_items # <<>>
    /\ LongestAreCritical(ProgramDocuments)

\* C13 amended: a successful timeline has a non-empty critical path
\* whenever the applicant's checklist (the program's documents that pass the
\* education-level filter) has a required item, and the critical path
\* contains the checklist's document of the longest total duration
C13_CriticalPathOfChecklist ==
  TimelineDone =>
    /\ (\E i \in 1..Len(ApplicableDocuments) : ApplicableDocuments[i].required)
         => output.data.critical_path_items # <<>>
    /\ LongestAreCritical(ApplicableDocuments)

\* a timeline for an applicant for whom a document of the program is
\* filtered out, with a required item, and with an item off the critical path
C13_Witness ==
  /\ TimelineDone
  /\ Len(ApplicableDocuments) < Len(ProgramDocuments)
  /\ \E i \in 1..Len(ApplicableDocuments) :
       ApplicableDocuments[i].required /\ Critical(ApplicableDocuments[i])
  /\ \E i \in 1..Len(ApplicableDocuments) : ~Critical(ApplicableDocuments[i])

\* the intakes the requested program declares
DeclaredIntakes == (CHOOSE p \in db.programs : p.id = input.program_id).intakes

\* the assumptions buildTimeline records when the intake date is not known
IntakeAssumptions ==
  {"Intake dates not available - using generic 8-week timeline",
   "Timeline is based on an 8-week preparation period"}

AssumesIntake ==
  \E i \in 1..Len(output.data.assumptions) :
    output.data.assumptions[i] \in IntakeAssumptions

\* C14: a timeline built without an intake_target for a program that
\* declares an intake has the program's first declared intake as its
\* target_intake and records no assumption about intake dates
C14_FirstIntakeWithoutTarget ==
  (TimelineDone /\ ~Has(input, "intake_target") /\ DeclaredIntakes # <<>>) =>
    /\ output.data.target_intake = DeclaredIntakes[1]
    /\ ~AssumesIntake

\* the scenario of the claim, and one whose first intake is not the default label
C14_Witness ==
  /\ TimelineDone
  /\ ~Has(input, "intake_target")
  /\ DeclaredIntakes = <<"February", "September">>
  /\ output.data.target_intake = "February"
  /\ output.data.assumptions = <<>>

\* the declared intakes that match the requested target
MatchingIntakes ==
  {i \in 1..Len(DeclaredIntakes) : IntakeMatches(DeclaredIntakes[i], input.intake_target)}

\* the caller's target matches a declared intake
TargetMatches == Has(input, "intake_target") /\ MatchingIntakes # {}

\* C15: the target intake of a timeline follows the fallback chain: a
\* supplied target that matches a declared intake gives that declared
\* intake; otherwise a program that declares intakes gives its first
\* declared intake; otherwise the default label is given and an assumption
\* is recorded. With declared intakes the target intake is one of them
C15_IntakeFallbackChain ==
  TimelineDone =>
    /\ TargetMatches =>
         \E i \in MatchingIntakes : output.data.target_intake = DeclaredIntakes[i]
    /\ (~TargetMatches /\ DeclaredIntakes # <<>>) =>
         output.data.target_intake = DeclaredIntakes[1]
    /\ DeclaredIntakes = <<>> =>
         /\ output.data.target_intake
              = (IF Has(input, "intake_target") THEN input.intake_target ELSE "September")
         /\ AssumesIntake
    /\ DeclaredIntakes # <<>> =>
         \E i \in 1..Len(DeclaredIntakes) :
           output.data.target_intake = DeclaredIntakes[i]

-----------------------------------------------------------------------------
(* Properties of the program search *)

\* the rows of the catalog that the response returns as programs
ReturnedPrograms ==
  {p \in db.programs :
     \E i \in 1..Len(output.data.programs) : output.data.programs[i].id = p.id}

\* sub occurs in s as a run of consecutive characters
IsSubstring(sub, s) ==
  \E k \in 0..(Len(s) - Len(sub)) : SubSeq(s, k + 1, k + Len(sub)) = sub

\* sub occurs in name, ignoring case
NameContains(name, sub) ==
  IsSubstring(toLowerCaseText(sub), toLowerCaseText(name))

\* an expanded keyword of the response occurs in one of the names of p
KeywordOccurs(p) ==
  \E i \in 1..Len(output.data.query_info.expanded_keywords) :
    \/ NameContains(p.program_name_en, output.data.query_info.expanded_keywords[i])
    \/ NameContains(p.program_name_ar, output.data.query_info.expanded_keywords[i])

\* the predicates on degree, language, city and keywords, all together
MeetsProfile(p) ==
  /\ p.active_flag = 1
  /\ Has(input.profile, "desired_degree_level")
       => p.degree_level = input.profile.desired_degree_level
  /\ Has(input.profile, "preferred_language")
       => p.language \in {input.profile.preferred_language, "mixed"}
  /\ Has(input.profile, "city_preference")
       => toLowerCase(p.city) = toLowerCase(input.profile.city_preference)
  /\ output.data.query_info.expanded_keywords # <<>> => KeywordOccurs(p)

\* the call gives only a degree, a language, a city and keywords
ProfileOnly ==
  /\ ~Has(input, "filters")
  /\ ~Has(input.profile, "budget_max")
  /\ ~Has(input.profile, "budget_min")

\* C16: a search returns only active programs that have the desired degree
\* level, the preferred language or mixed, the preferred city (ignoring
\* case) and, when keywords are given, an expanded keyword as a substring
\* (ignoring case) of the English or the Arabic name; a call that gives
\* nothing but these returns every such program
C16_ExactlyTheMatchingPrograms ==
  SearchDone =>
    /\ \A p \in ReturnedPrograms : MeetsProfile(p)
    /\ ProfileOnly => \A p \in db.programs : MeetsProfile(p) => p \in ReturnedPrograms

\* C17: when the profile gives budget_max, whatever number it is, every
\* returned program has tuition_min <= budget_max; when it gives budget_min,
\* every returned program has tuition_max >= budget_min
C17_BudgetRangeOverlaps ==
  SearchDone =>
    \A i \in 1..Len(output.data.programs) :
      /\ Has(input.profile, "budget_max")
           => output.data.programs[i].tuition_min <= input.profile.budget_max
      /\ Has(input.profile, "budget_min")
           => output.data.programs[i].tuition_max >= input.profile.budget_min

\* p satisfies every field the filters object of the call gives
MeetsFilters(p) ==
  /\ Has(input.filters, "degree_level") => p.degree_level = input.filters.degree_level
  /\ Has(input.filters, "language") => p.language = input.filters.language
  /\ Has(input.filters, "city") => toLowerCase(p.city) = toLowerCase(input.filters.city)
  /\ Has(input.filters, "university_id") => p.university_id = input.filters.university_id
  /\ Has(input.filters, "budget_max") => p.tuition_min <= input.filters.budget_max
  /\ Has(input.filters, "budget_min") => p.tuition_max >= input.filters.budget_min

\* the ids the same profile selects when the call gives no filters
SelectedByProfileAlone ==
  LET alone == searchPrograms([profile |-> input.profile]).data.programs
  IN {alone[i].id : i \in 1..Len(alone)}

\* C18: every program a search with filters returns satisfies every filter
\* field that is present (degree_level, language, city, university_id and
\* the budget bounds against the tuition range), and is a program the
\* profile alone selects
C18_FiltersNarrow ==
  (SearchDone /\ Has(input, "filters")) =>
    \A p \in ReturnedPrograms :
      /\ MeetsFilters(p)
      /\ p.id \in SelectedByProfileAlone

\* the results the matcher gives for the call's profile without its
\* keywords, under the call's filters
MatchedWithoutKeywords ==
  LET rows == repoSearchPrograms(
                [f \in DOMAIN input.profile \ {"major_keywords"} |-> input.profile[f]],
                IF Has(input, "filters") THEN input.filters ELSE NoFields)
  IN {rows[i] : i \in 1..Len(rows)}

\* C19: near-equivalents are given only when the primary search returned
\* no program, and each of them is a result the matcher gives for a row of
\* the catalog under the degree, language, city, budget and filter
\* predicates of the primary query
C19_NearEquivalentsOnlyAfterEmptySearch ==
  SearchDone =>
    /\ output.data.near_equivalents # <<>> => output.data.programs = <<>>
    /\ \A i \in 1..Len(output.data.near_equivalents) :
         /\ output.data.near_equivalents[i] \in MatchedWithoutKeywords
         /\ \E p \in db.programs :
              /\ p.active_flag = 1
              /\ output.data.near_equivalents[i] = mapToSearchResult(p)

\* near-equivalents found for a profile with a predicate that holds back an
\* active program of the catalog
C19_Witness ==
  /\ SearchDone
  /\ output.data.programs = <<>>
  /\ output.data.near_equivalents # <<>>
  /\ DOMAIN input.profile # {"major_keywords"}
  /\ \E p \in db.programs :
       /\ p.active_flag = 1
       /\ mapToSearchResult(p) \notin MatchedWithoutKeywords

-----------------------------------------------------------------------------
(* Properties of the checklist order *)

\* the estimated days of an item, a missing estimate counting as 0
DaysOrZero(item) == IF Has(item, "estimated_days") THEN item.estimated_days ELSE 0

\* C20: in a checklist every required item comes before every recommended
\* item, and the items of one tier are in ascending order of estimated
\* days, a missing estimate counting as 0
C20_RequiredFirstThenByDays ==
  ChecklistDone =>
    \A i, j \in 1..Len(output.data.items) :
      i < j =>
        /\ output.data.items[j].priority = "required"
             => output.data.items[i].priority = "required"
        /\ output.data.items[i].priority = output.data.items[j].priority
             => DaysOrZero(output.data.items[i]) <= DaysOrZero(output.data.items[j])

\* a required item without an estimate first, then a required item of 7
\* days, then a recommended item of 5 days
C20_Witness ==
  /\ ChecklistDone
  /\ Len(output.data.items) = 3
  /\ output.data.items[1].doc_key = "equivalence_letter"
  /\ ~Has(output.data.items[1], "estimated_days")
  /\ output.data.items[2].doc_key = "high_school_diploma"
  /\ output.data.items[3].doc_key = "master_transcript"
  /\ output.data.items[3].priority = "recommended"

-----------------------------------------------------------------------------
(* Properties of rule precedence and of unscored rules *)

\* the rows of the requirements table that belong to the requested program
ProgramLevelRules(kind) ==
  {r \in db.requirements : r.program_id = input.program_id /\ r.rule_type = kind}

\* the profile fields the rules of a kind read
FieldsOfKind(kind) ==
  CASE kind = "gpa_minimum" -> {"gpa"}
    [] kind = "language_proficiency" -> {"english_score", "turkish_score"}
    [] kind = "portfolio_required" -> {"has_portfolio"}
    [] kind = "work_experience" -> {"work_experience_years"}
    [] OTHER -> {}

\* what the rules of a kind contributed to the result: their reasons (the
\* first reason is the education-level one) and their missing-field entries
Contributions(kind) ==
  Cardinality({i \in 2..Len(Reasons) : Reasons[i].rule_type = kind})
    + Cardinality({i \in 1..Len(output.data.missing_fields) :
                     output.data.missing_fields[i] \in FieldsOfKind(kind)})

\* C21: when the program has its own rules of a kind, only they are
\* evaluated: the reasons and missing-field entries of that kind are no more
\* than the program's own rules of the kind, the institution-level rules of
\* the kind contributing nothing
C21_ProgramRulesTakePrecedence ==
  EligibilityDone =>
    \A kind \in {RuleTypeOrder[i] : i \in 1..Len(RuleTypeOrder)} :
      ProgramLevelRules(kind) # {} =>
        Contributions(kind) <= Cardinality(ProgramLevelRules(kind))

(* Properties of the weekly schedule *)

Weeks == output.data.weeks

HasTask(week, doc_key) ==
  \E i \in 1..Len(week.tasks) : week.tasks[i].doc_key = doc_key

\* C22: a successful timeline has exactly 8 weeks numbered 1 to 8 in order;
\* weeks 7 and 8 each hold the final review task, and the submission task is
\* in week 8 and in no other week
C22_EightWeeksReviewAndSubmission ==
  TimelineDone =>
    /\ Len(Weeks) = 8
    /\ \A w \in 1..Len(Weeks) : Weeks[w].week_number = w
    /\ HasTask(Weeks[7], "final_review") /\ HasTask(Weeks[8], "final_review")
    /\ \A w \in 1..Len(Weeks) : HasTask(Weeks[w], "submission") <=> w = Len(Weeks)

\* a timeline without a target intake for a program without intakes, whose
\* first week starts a document
C22_Witness ==
  /\ TimelineDone
  /\ ~Has(input, "intake_target")
  /\ DeclaredIntakes = <<>>
  /\ Weeks[1].tasks # <<>>
  /\ HasTask(Weeks[8], "submission")

(* Properties of the document checklist *)

\* C23: a successful checklist without items has a non-empty unknowns list
C23_EmptyChecklistIsSurfaced ==
  ChecklistDone /\ output.data.items = <<>> => output.data.unknowns # <<>>

\* the applicant's current level
CurrentLevel == input.profile.current_education_level

\* the checklist has an item of this key
Listed(doc_key) ==
  \E k \in 1..Len(output.data.items) : output.data.items[k].doc_key = doc_key

\* the education-level whitelist, by document key
Whitelisted(doc_key) ==
  /\ includes(doc_key, "bachelor") => CurrentLevel # "high_school"
  /\ includes(doc_key, "master") => CurrentLevel \in {"master", "phd"}

\* the indexes of the program's documents that pass the whitelist
WhitelistedDocuments ==
  {i \in 1..Len(ProgramDocuments) : Whitelisted(ProgramDocuments[i].doc_key)}

\* C24: the checklist holds one item for each document of the program that
\* passes the education-level whitelist (a bachelor document is dropped for
\* a high_school applicant, a master document for an applicant who is
\* neither master nor phd), and no other item
C24_ChecklistIsTheWhitelistedDocuments ==
  ChecklistDone =>
    /\ \A i \in 1..Len(ProgramDocuments) :
         Listed(ProgramDocuments[i].doc_key) <=> i \in WhitelistedDocuments
    /\ \A k \in 1..Len(output.data.items) :
         \E i \in WhitelistedDocuments :
           ProgramDocuments[i].doc_key = output.data.items[k].doc_key
    /\ Len(output.data.items) = Cardinality(WhitelistedDocuments)

\* a checklist of a high_school applicant that drops a bachelor document
\* and keeps another document
C24_Witness ==
  /\ ChecklistDone
  /\ CurrentLevel = "high_school"
  /\ \E i \in 1..Len(ProgramDocuments) : ProgramDocuments[i].doc_key = "bachelor_diploma"
  /\ ~Listed("bachelor_diploma")
  /\ Listed("passport_copy")

(* Properties of unscored rules and of the prerequisite's inputs *)

\* the engine has no scoring for the rule: a kind without an evaluator, a
\* work_experience rule when the profile declares its years, or a language
\* rule whose payload does not parse
Unscorable(req) ==
  \/ req.rule_type \in {"other", "exam_score", "interview_required"}
  \/ req.rule_type = "work_experience" /\ Has(input.profile, "work_experience_years")
  \/ req.rule_type = "language_proficiency" /\ req.rule_value.t = "bad"

\* C25: when the program has a rule the engine cannot score and there is no
\* hard disqualifier, the status is needs_review
C25_UnscoredRuleNeedsReview ==
  ( /\ EligibilityDone
    /\ \E req \in AppliedRules : Unscorable(req)
    /\ ~HardDisqualifier )
  => output.data.status = "needs_review"

\* C26: the education-level reason is computed from the profile's own two
\* level fields only: it passes exactly when the table admits the profile's
\* current level to the profile's desired level, whatever degree level the
\* evaluated program carries
C26_PrerequisiteFromProfileLevels ==
  EligibilityDone =>
    ( Reasons[1].passed
        <=> PrerequisiteMet(input.profile.current_education_level,
                            input.profile.desired_degree_level) )

-----------------------------------------------------------------------------
(* Catalogs and requests of the language specification *)

\* language_proficiency rows a catalog draws from: English rules with both
\* thresholds and with one, Turkish rules with a level of the scale, without
\* a level, and with a level that is not written as the scale writes it
LanguageRulePool ==
  LET LanguageRule(id, payload) ==
        [id |-> id, program_id |-> "p1", university_id |-> "u1", required_flag |-> 1,
         rule_type |-> "language_proficiency", rule_value |-> ObjText(payload)]
  IN { LanguageRule(11, [type |-> "english", ielts |-> 60, toefl |-> 80]),
       LanguageRule(12, [type |-> "english", ielts |-> 60]),
       LanguageRule(13, [type |-> "turkish", tomer |-> "B2"]),
       LanguageRule(14, [type |-> "turkish"]),
       LanguageRule(15, [type |-> "turkish", tomer |-> "C1"]),
       LanguageRule(16, [type |-> "turkish", tomer |-> "b2"]) }

\* english_score of either test kind; turkish_score.level is any string
LanguageProfiles ==
  { [nationality |-> "Egyptian", current_education_level |-> "bachelor",
     desired_degree_level |-> "bachelor"] @@ e @@ t :
      e \in OptionalField("english_score",
              {[type |-> k, score |-> n] : k \in {"ielts", "toefl"}, n \in {50, 60, 90}}),
      t \in OptionalField("turkish_score",
              {[type |-> "tomer", level |-> l] :
                 l \in {"A1", "A2", "B1", "B2", "C1", "C2", "b2", "Advanced"}}) }

LanguageCalls ==
  { [profile |-> profile, program_id |-> "p1"] : profile \in LanguageProfiles }

\* a catalog: the bachelor program p1 with up to MaxRules language rules
InitLanguage ==
  /\ \E rules \in SUBSET LanguageRulePool :
       /\ Cardinality(rules) <= MaxRules
       /\ db = [universities |-> {"u1"},
                programs |-> {Program("p1", "u1", "bachelor", <<"September">>)},
                requirements |-> rules,
                document_templates |-> {},
                program_document_rules |-> {}]
  /\ input = NoInput
  /\ output = NoOutput

NextLanguage ==
  \/ \E call \in LanguageCalls : BuildEligibilitySnapshot(call)
  \/ Respond

SpecLanguage == InitLanguage /\ [][NextLanguage]_vars

-----------------------------------------------------------------------------
(* Properties of the language rules *)

LanguageRules(field) == {req \in AppliedRules : NeededField(req) = field}

\* a language_proficiency reason of the response with this verdict and text
LanguageReason(passed, reason_en) ==
  \E r \in ReasonSet :
    /\ r.rule_type = "language_proficiency"
    /\ r.passed = passed
    /\ r.reason_en = reason_en

EnglishScore == input.profile.english_score

\* the rule declares a threshold for the test the profile took
DeclaresThreshold(req) == Has(req.rule_value.o, EnglishScore.type)

Threshold(req) == req.rule_value.o[EnglishScore.type]

\* C27: for a profile with an English score, a failed English reason is
\* emitted only when some English rule declares a threshold for the profile's
\* test kind and the score is below it, and a passed English reason only
\* when the score is at or above such a threshold
C27_EnglishVerdictBackedByThreshold ==
  (EligibilityDone /\ Has(input.profile, "english_score")) =>
    /\ LanguageReason(FALSE, "English score does not meet the minimum requirement")
         => \E req \in LanguageRules("english_score") :
              DeclaresThreshold(req) /\ EnglishScore.score < Threshold(req)
    /\ LanguageReason(TRUE, "English score meets the requirements")
         => \E req \in LanguageRules("english_score") :
              DeclaresThreshold(req) /\ EnglishScore.score >= Threshold(req)

Scale == <<"A1", "A2", "B1", "B2", "C1", "C2">>

OnScale(level) == \E i \in 1..Len(Scale) : Scale[i] = level

Rank(level) == CHOOSE i \in 1..Len(Scale) : Scale[i] = level

TurkishLevel == input.profile.turkish_score.level

\* the level a Turkish rule requires: its tomer, B2 when it has none
RequiredLevel(req) ==
  IF Has(req.rule_value.o, "tomer") THEN req.rule_value.o.tomer ELSE "B2"

\* the profile's level is on the scale, at or above the required level
AtOrAbove(required) == OnScale(TurkishLevel) /\ Rank(TurkishLevel) >= Rank(required)

TurkishRules == LanguageRules("turkish_score")

\* C28: for a profile with a Turkish level, a Turkish rule whose required
\* level (B2 when unspecified) is on the scale A1 < A2 < B1 < B2 < C1 < C2
\* passes iff the profile's level is at or above it, and a profile level
\* that is not one of the six values never passes
C28_TurkishLevelOnOrderedScale ==
  (EligibilityDone /\ Has(input.profile, "turkish_score")) =>
    /\ \A req \in TurkishRules :
         OnScale(RequiredLevel(req)) =>
           IF AtOrAbove(RequiredLevel(req))
           THEN LanguageReason(TRUE, "Turkish level meets the requirements")
           ELSE LanguageReason(FALSE,
                  "Turkish level does not meet the minimum requirement ("
                    \o RequiredLevel(req) \o ")")
    /\ ~OnScale(TurkishLevel)
         => ~LanguageReason(TRUE, "Turkish level meets the requirements")

-----------------------------------------------------------------------------
(* Properties of the schedule's coverage *)

\* the doc_key is a task of some week of the response
Scheduled(doc_key) == \E w \in 1..Len(Weeks) : HasTask(Weeks[w], doc_key)

\* the required items of the applicant's resolved checklist
RequiredItems ==
  {i \in 1..Len(ApplicableDocuments) : ApplicableDocuments[i].required}

\* C29: in a successful timeline every required item of the resolved
\* checklist is a task of at least one of the weeks
C29_EveryRequiredItemScheduled ==
  TimelineDone =>
    \A i \in RequiredItems : Scheduled(ApplicableDocuments[i].doc_key)

-----------------------------------------------------------------------------
(* build_timeline beside the admin API: the two reads of buildTimeline are
   separate statements on the shared database file, and the admin server,
   another process, writes between them *)

InitConcurrent ==
  /\ \E intakes \in IntakeLists, rules \in SUBSET {r \in DocumentRulePool : r.id \in {3, 8}} :
       /\ Cardinality(rules) <= MaxDocs
       /\ db = [universities |-> {"u1", "u2"},
                programs |-> {Program("p1", "u1", "master", intakes),
                              Program("p2", "u2", "bachelor", <<"September">>)},
                requirements |-> {r \in RulePool : r.id \in {1, 10}},
                document_templates |-> DocumentTemplates,
                program_document_rules |-> {InsertDefaults(r) : r \in rules}]
  /\ input = NoInput
  /\ output = NoOutput

\* buildTimeline up to its first return: the checklist is built from the
\* catalog as it is now; the frame keeps checklistResponse and the program
\* the checklist read
TimelineFirstRead(call) ==
  /\ Idle
  /\ LET checklistResponse ==
           buildDocumentChecklist([profile |-> call.profile,
                                   program_id |-> call.program_id])
     IN IF ~checklistResponse.success
        THEN /\ input' = [tool |-> "build_timeline", pc |-> "returned",
                          checklistResponse |-> checklistResponse] @@ call
             /\ output' = Failure("CHECKLIST_ERROR",
                                  "Could not determine required documents")
        ELSE /\ input' = [tool |-> "build_timeline", pc |-> "second_read",
                          checklistResponse |-> checklistResponse,
                          checklistProgram |-> getProgramDetail(call.program_id)] @@ call
             /\ output' = NoOutput
  /\ UNCHANGED db

\* buildTimeline from repo.getProgramDetail to its return, on the catalog as
\* it is now
TimelineSecondRead ==
  /\ ~Idle /\ input.pc = "second_read"
  /\ LET programDetail == getProgramDetail(input.program_id)
     IN IF IsNull(programDetail)
        THEN /\ input' = [input EXCEPT !.pc = "returned"]
             /\ output' = Failure("PROGRAM_NOT_FOUND", "Program not found")
        ELSE /\ input' = [input EXCEPT !.pc = "returned"]
                           @@ [programDetail |-> programDetail]
             /\ output' = TimelineResult(input, input.checklistResponse.data.items,
                                         programDetail.intakes)
  /\ UNCHANGED db

\* PUT /api/programs/:id with new intakes and the other columns as stored;
\* an unknown id changes nothing (404)
AdminPutProgram(id, intakes) ==
  /\ \E p \in db.programs : p.id = id /\ p.intakes # intakes
  /\ db' = [db EXCEPT !.programs =
              {IF p.id = id THEN [p EXCEPT !.intakes = intakes] ELSE p : p \in @}]
  /\ UNCHANGED <<input, output>>

\* DELETE /api/programs/:id; the program's requirements and document rules
\* go with it (ON DELETE CASCADE, foreign_keys = ON)
AdminDeleteProgram(id) ==
  /\ \E p \in db.programs : p.id = id
  /\ db' = [db EXCEPT !.programs = {p \in @ : p.id # id},
                      !.requirements = {r \in @ : r.program_id # id},
                      !.program_document_rules = {r \in @ : r.program_id # id}]
  /\ UNCHANGED <<input, output>>

NextConcurrent ==
  \/ \E call \in TimelineCalls : TimelineFirstRead(call)
  \/ TimelineSecondRead
  \/ \E id \in ProgramIds, intakes \in IntakeLists : AdminPutProgram(id, intakes)
  \/ \E id \in ProgramIds : AdminDeleteProgram(id)
  \/ (~Idle /\ input.pc = "returned" /\ Respond)

SpecConcurrent == InitConcurrent /\ [][NextConcurrent]_vars

-----------------------------------------------------------------------------
(* Properties of the timeline's catalog snapshot *)

\* the checklist of a program detail for the calling profile
ItemsOf(programDetail) ==
  SortItems(ChecklistLoop(programDetail.documents, input.profile,
                          [items |-> <<>>, assumptions |-> <<>>]).items, <<>>)

\* the result of the call on the catalog as one read of it saw it
OnSnapshot(programDetail) ==
  TimelineResult(input, ItemsOf(programDetail), programDetail.intakes)

\* the call has returned
Returned == ~Idle /\ input.pc = "returned"

ChecklistStageSucceeded == Returned /\ input.checklistResponse.success

\* C30: a successful timeline is the timeline of one catalog state, the one
\* its first read saw or the one its second read saw (documents of one state
\* are not combined with intakes of another), and a call whose checklist
\* stage succeeded does not end in PROGRAM_NOT_FOUND
C30_OneSnapshotPerCall ==
  ChecklistStageSucceeded =>
    /\ output.success =>
         \/ output = OnSnapshot(input.checklistProgram)
         \/ output = OnSnapshot(input.programDetail)
    /\ ~output.success => output.error.code # "PROGRAM_NOT_FOUND"

====
